---------------------------- MODULE Spec2Model ----------------------------
(***************************************************************************)
(* Model of the retirements reconciliation pipeline                        *)
(* (src/src/app/api/retirements/route.ts): name normalisation, the manual  *)
(* delay index, the four-strategy EIA/GEM matcher, the merge and delay     *)
(* engine, the deduplicator and the sorter/paginator.                      *)
(*                                                                         *)
(* Encoding of JavaScript values:                                          *)
(*   string            a TLA+ string (Len, \o and SubSeq act on its chars) *)
(*   null / undefined  Null, the empty tuple                               *)
(*   string | null     the string, or NullString where a column holds both *)
(*   number | null     <<n>> or Null                                       *)
(*   date string       <<y, m, d>> for "YYYY-MM-DD", or Null               *)
(*   array             a sequence                                          *)
(*   Map               a sequence of [key, val] entries in insertion order *)
(***************************************************************************)
EXTENDS Integers, Sequences, FiniteSets, TLC

Null == <<>>

\* null in a column whose other values are strings (a GEM row's plant_name)
NullString == "<null>"

\* ------------------------------------------------------------------------
\* Bounds of the model
\* ------------------------------------------------------------------------
\* rows in the generators table and the GEM table together
MaxRows == 3
\* merged records handed to the deduplicator on its own
MaxRecs == 3

\* ------------------------------------------------------------------------
\* Strings
\* ------------------------------------------------------------------------
LowerLetters ==
  {"a","b","c","d","e","f","g","h","i","j","k","l","m",
   "n","o","p","q","r","s","t","u","v","w","x","y","z"}

UpperLetters ==
  {"A","B","C","D","E","F","G","H","I","J","K","L","M",
   "N","O","P","Q","R","S","T","U","V","W","X","Y","Z"}

Digits == {"0","1","2","3","4","5","6","7","8","9"}

LowerOf ==
  [c \in UpperLetters |->
     CASE c = "A" -> "a" [] c = "B" -> "b" [] c = "C" -> "c" [] c = "D" -> "d"
       [] c = "E" -> "e" [] c = "F" -> "f" [] c = "G" -> "g" [] c = "H" -> "h"
       [] c = "I" -> "i" [] c = "J" -> "j" [] c = "K" -> "k" [] c = "L" -> "l"
       [] c = "M" -> "m" [] c = "N" -> "n" [] c = "O" -> "o" [] c = "P" -> "p"
       [] c = "Q" -> "q" [] c = "R" -> "r" [] c = "S" -> "s" [] c = "T" -> "t"
       [] c = "U" -> "u" [] c = "V" -> "v" [] c = "W" -> "w" [] c = "X" -> "x"
       [] c = "Y" -> "y" [] c = "Z" -> "z"]

CharAt(s, i) == SubSeq(s, i, i)

\* s.slice(i - 1): the suffix of s that starts at position i (1-based)
From(s, i) == SubSeq(s, i, Len(s))

\* String.prototype.toLowerCase, computed character by character
RECURSIVE LowerString(_)
LowerString(s) ==
  IF Len(s) = 0 THEN ""
  ELSE LET c == CharAt(s, 1)
       IN (IF c \in UpperLetters THEN LowerOf[c] ELSE c) \o LowerString(From(s, 2))

\* s.replace(/[^...]/g, ''): keep the characters of s that are in `keep`
RECURSIVE KeepChars(_, _)
KeepChars(s, keep) ==
  IF Len(s) = 0 THEN ""
  ELSE LET c == CharAt(s, 1)
       IN (IF c \in keep THEN c ELSE "") \o KeepChars(From(s, 2), keep)

\* s.startsWith(p)
startsWith(s, p) == Len(p) <= Len(s) /\ SubSeq(s, 1, Len(p)) = p

\* s.endsWith(p)
endsWith(s, p) == Len(p) <= Len(s) /\ SubSeq(s, Len(s) - Len(p) + 1, Len(s)) = p

\* s.includes(p)
includes(s, p) ==
  \E i \in 1..(Len(s) - Len(p) + 1) : SubSeq(s, i, i + Len(p) - 1) = p

\* s.split('-'): the pieces of s between hyphens
RECURSIVE SplitFrom(_, _, _)
SplitFrom(s, i, cur) ==
  IF Len(cur) < 0 \/ i > Len(s) THEN <<cur>>
  ELSE IF CharAt(s, i) = "-" THEN <<cur>> \o SplitFrom(s, i + 1, "")
  ELSE SplitFrom(s, i + 1, cur \o CharAt(s, i))

SplitString(s) == SplitFrom(s, 1, "")

\* ------------------------------------------------------------------------
\* Name normaliser (route.ts 43-49)
\* ------------------------------------------------------------------------
\* the alternation of the regular expression at route.ts:46, in its order
StopWords ==
  <<"steam", "plant", "station", "generating", "power", "energy",
    "center", "complex", "fossil">>

\* number of white-space characters of s from position i on (greedy \s+, \s*)
RECURSIVE SpaceRun(_, _)
SpaceRun(s, i) ==
  IF i <= Len(s) /\ CharAt(s, i) = " " THEN 1 + SpaceRun(s, i + 1) ELSE 0

\* length of the first alternative of StopWords that s carries at position i,
\* 0 when none does
StopWordAt(s, i) ==
  LET hits == {k \in 1..Len(StopWords) : startsWith(From(s, i), StopWords[k])}
  IN IF hits = {} THEN 0
     ELSE Len(StopWords[CHOOSE k \in hits : \A j \in hits : k <= j])

\* .replace(/\s+(steam|...|fossil)\s*/gi, ' '): leftmost matches, scanned left
\* to right, each scan resuming after the end of the previous match
RECURSIVE ReplaceStopWords(_, _)
ReplaceStopWords(s, i) ==
  IF i > Len(s) THEN ""
  ELSE LET sp == SpaceRun(s, i)
           w  == IF sp > 0 THEN StopWordAt(s, i + sp) ELSE 0
       IN IF w > 0
          THEN " " \o ReplaceStopWords(s, i + sp + w + SpaceRun(s, i + sp + w))
          ELSE CharAt(s, i) \o ReplaceStopWords(s, i + 1)

\* .replace(/\s+/g, ' ')
RECURSIVE CollapseSpaces(_, _)
CollapseSpaces(s, i) ==
  IF i > Len(s) THEN ""
  ELSE LET sp == SpaceRun(s, i)
       IN IF sp > 0 THEN " " \o CollapseSpaces(s, i + sp)
          ELSE CharAt(s, i) \o CollapseSpaces(s, i + 1)

\* String.prototype.trim
RECURSIVE trim(_)
trim(s) ==
  IF Len(s) = 0 THEN s
  ELSE IF CharAt(s, 1) = " " THEN trim(From(s, 2))
  ELSE IF CharAt(s, Len(s)) = " " THEN trim(SubSeq(s, 1, Len(s) - 1))
  ELSE s

\* [a-z0-9\s] and [a-z0-9]
NameChars == LowerLetters \cup Digits \cup {" "}
AlnumChars == LowerLetters \cup Digits

\* the body of normalizePlantName, computed character by character
NormalizeName(name) ==
  trim(CollapseSpaces(ReplaceStopWords(KeepChars(LowerString(name), NameChars), 1), 1))

\* name.toLowerCase().replace(/[^a-z0-9]/g, '') (route.ts 116, 121, 129),
\* computed character by character
CompactString(name) == KeepChars(LowerString(name), AlnumChars)

\* s.replace(/[^0-9]/g, '') (route.ts 350, 496), computed character by character
DigitString(s) == KeepChars(s, Digits)

\* ------------------------------------------------------------------------
\* Static tables (route.ts 6-40, 52-55, 73-110)
\* ------------------------------------------------------------------------
\* Object.entries(GEM_TO_EIA_NAME_MAP), in source order
GEM_TO_EIA_NAME_MAP ==
  << [gemName |-> "Gaston Steam Plant", eiaName |-> "E C Gaston"],
     [gemName |-> "Barry Steam Plant", eiaName |-> "Barry"],
     [gemName |-> "Miller Steam Plant", eiaName |-> "James H Miller Jr"],
     [gemName |-> "Plant Bowen", eiaName |-> "Bowen"],
     [gemName |-> "Scherer Steam Generating Station", eiaName |-> "Scherer"],
     [gemName |-> "Wansley Plant", eiaName |-> "Wansley"],
     [gemName |-> "Hammond Steam Generating Station", eiaName |-> "Hammond"],
     [gemName |-> "Cumberland Fossil Plant", eiaName |-> "Cumberland"],
     [gemName |-> "Paradise Fossil Plant", eiaName |-> "Paradise"],
     [gemName |-> "Bull Run Fossil Plant", eiaName |-> "Bull Run"],
     [gemName |-> "Kingston Fossil Plant", eiaName |-> "Kingston"],
     [gemName |-> "Gallatin Fossil Plant", eiaName |-> "Gallatin"],
     [gemName |-> "Gibson Generating Station", eiaName |-> "Gibson"],
     [gemName |-> "Cayuga Generating Station", eiaName |-> "Cayuga"],
     [gemName |-> "Baldwin Energy Complex", eiaName |-> "Baldwin Energy Station"],
     [gemName |-> "Newton Power Station", eiaName |-> "Newton"],
     [gemName |-> "Belle River Power Plant", eiaName |-> "Belle River"],
     [gemName |-> "Monroe Power Plant", eiaName |-> "Monroe"],
     [gemName |-> "Columbia Energy Center", eiaName |-> "Columbia"],
     [gemName |-> "Comanche Generating Station", eiaName |-> "Comanche"],
     [gemName |-> "Dave Johnston Power Plant", eiaName |-> "Dave Johnston"],
     [gemName |-> "Marshall Steam Station", eiaName |-> "Marshall"],
     [gemName |-> "Belews Creek Steam Station", eiaName |-> "Belews Creek"],
     [gemName |-> "Jeffrey Energy Center", eiaName |-> "Jeffrey Energy Ctr"],
     [gemName |-> "Ghent Generating Station", eiaName |-> "Ghent"],
     [gemName |-> "Mill Creek Generating Station", eiaName |-> "Mill Creek"],
     [gemName |-> "Sherburne County Generating Station", eiaName |-> "Sherburne County"],
     [gemName |-> "Sioux Energy Center", eiaName |-> "Sioux"],
     [gemName |-> "Four Corners Steam Plant", eiaName |-> "Four Corners"],
     [gemName |-> "Pleasants Power Station", eiaName |-> "Pleasants"],
     [gemName |-> "Naughton Power Plant", eiaName |-> "Naughton"],
     [gemName |-> "Elm Road Generating Station", eiaName |-> "Elm Road"],
     [gemName |-> "Petersburg Generating Station", eiaName |-> "Petersburg"] >>

\* MANUAL_DELAY_DATA, in source order; an absent flag is FALSE
MANUAL_DELAY_DATA ==
  << [name |-> "Gaston Station", state |-> "AL", original_retirement_year |-> 2028,
      revised_retirement_year |-> <<2035>>, delay_years |-> <<7>>,
      indefinite |-> FALSE, doe_202c |-> FALSE],
     [name |-> "Comanche", state |-> "CO", original_retirement_year |-> 2025,
      revised_retirement_year |-> <<2026>>, delay_years |-> <<1>>,
      indefinite |-> FALSE, doe_202c |-> FALSE],
     [name |-> "Craig", state |-> "CO", original_retirement_year |-> 2025,
      revised_retirement_year |-> Null, delay_years |-> Null,
      indefinite |-> TRUE, doe_202c |-> FALSE],
     [name |-> "Bowen", state |-> "GA", original_retirement_year |-> 2027,
      revised_retirement_year |-> <<2038>>, delay_years |-> <<11>>,
      indefinite |-> FALSE, doe_202c |-> FALSE],
     [name |-> "Scherer", state |-> "GA", original_retirement_year |-> 2027,
      revised_retirement_year |-> <<2038>>, delay_years |-> <<11>>,
      indefinite |-> FALSE, doe_202c |-> FALSE],
     [name |-> "Cayuga", state |-> "IN", original_retirement_year |-> 2026,
      revised_retirement_year |-> <<2029>>, delay_years |-> <<3>>,
      indefinite |-> FALSE, doe_202c |-> FALSE],
     [name |-> "Gibson", state |-> "IN", original_retirement_year |-> 2035,
      revised_retirement_year |-> <<2038>>, delay_years |-> <<3>>,
      indefinite |-> FALSE, doe_202c |-> FALSE],
     [name |-> "Merom", state |-> "IN", original_retirement_year |-> 2023,
      revised_retirement_year |-> Null, delay_years |-> Null,
      indefinite |-> TRUE, doe_202c |-> FALSE],
     [name |-> "Baldwin", state |-> "IL", original_retirement_year |-> 2025,
      revised_retirement_year |-> <<2027>>, delay_years |-> <<2>>,
      indefinite |-> FALSE, doe_202c |-> FALSE],
     [name |-> "Jeffrey", state |-> "KS", original_retirement_year |-> 2030,
      revised_retirement_year |-> <<2032>>, delay_years |-> <<1>>,
      indefinite |-> FALSE, doe_202c |-> FALSE],
     [name |-> "Lawrence", state |-> "KS", original_retirement_year |-> 2023,
      revised_retirement_year |-> <<2028>>, delay_years |-> <<5>>,
      indefinite |-> FALSE, doe_202c |-> FALSE],
     [name |-> "Mill Creek", state |-> "KY", original_retirement_year |-> 2027,
      revised_retirement_year |-> <<2031>>, delay_years |-> <<4>>,
      indefinite |-> FALSE, doe_202c |-> FALSE],
     [name |-> "Ghent", state |-> "KY", original_retirement_year |-> 2028,
      revised_retirement_year |-> Null, delay_years |-> Null,
      indefinite |-> TRUE, doe_202c |-> FALSE],
     [name |-> "Brandon Shores", state |-> "MD", original_retirement_year |-> 2025,
      revised_retirement_year |-> <<2029>>, delay_years |-> <<4>>,
      indefinite |-> FALSE, doe_202c |-> FALSE],
     [name |-> "Campbell", state |-> "MI", original_retirement_year |-> 2025,
      revised_retirement_year |-> Null, delay_years |-> Null,
      indefinite |-> FALSE, doe_202c |-> TRUE],
     [name |-> "Sherburne", state |-> "MN", original_retirement_year |-> 2023,
      revised_retirement_year |-> <<2030>>, delay_years |-> <<7>>,
      indefinite |-> FALSE, doe_202c |-> FALSE],
     [name |-> "Sioux", state |-> "MO", original_retirement_year |-> 2028,
      revised_retirement_year |-> <<2033>>, delay_years |-> <<5>>,
      indefinite |-> FALSE, doe_202c |-> FALSE],
     [name |-> "Roxboro", state |-> "NC", original_retirement_year |-> 2027,
      revised_retirement_year |-> <<2034>>, delay_years |-> <<7>>,
      indefinite |-> FALSE, doe_202c |-> FALSE],
     [name |-> "Marshall", state |-> "NC", original_retirement_year |-> 2031,
      revised_retirement_year |-> <<2033>>, delay_years |-> <<2>>,
      indefinite |-> FALSE, doe_202c |-> FALSE],
     [name |-> "Belews Creek", state |-> "NC", original_retirement_year |-> 2035,
      revised_retirement_year |-> <<2040>>, delay_years |-> <<5>>,
      indefinite |-> FALSE, doe_202c |-> FALSE],
     [name |-> "Coal Creek", state |-> "ND", original_retirement_year |-> 2021,
      revised_retirement_year |-> Null, delay_years |-> Null,
      indefinite |-> TRUE, doe_202c |-> FALSE],
     [name |-> "Four Corners", state |-> "NM", original_retirement_year |-> 2022,
      revised_retirement_year |-> <<2031>>, delay_years |-> <<9>>,
      indefinite |-> FALSE, doe_202c |-> FALSE],
     [name |-> "Winyah", state |-> "SC", original_retirement_year |-> 2027,
      revised_retirement_year |-> <<2035>>, delay_years |-> <<8>>,
      indefinite |-> FALSE, doe_202c |-> FALSE],
     [name |-> "Cumberland", state |-> "TN", original_retirement_year |-> 2027,
      revised_retirement_year |-> <<2028>>, delay_years |-> <<1>>,
      indefinite |-> FALSE, doe_202c |-> FALSE],
     [name |-> "Fayette", state |-> "TX", original_retirement_year |-> 2022,
      revised_retirement_year |-> <<2029>>, delay_years |-> <<7>>,
      indefinite |-> FALSE, doe_202c |-> FALSE],
     [name |-> "Bonanza", state |-> "UT", original_retirement_year |-> 2030,
      revised_retirement_year |-> <<2041>>, delay_years |-> <<11>>,
      indefinite |-> FALSE, doe_202c |-> FALSE],
     [name |-> "Hunter", state |-> "UT", original_retirement_year |-> 2032,
      revised_retirement_year |-> <<2036>>, delay_years |-> <<4>>,
      indefinite |-> FALSE, doe_202c |-> FALSE],
     [name |-> "Huntington", state |-> "UT", original_retirement_year |-> 2032,
      revised_retirement_year |-> <<2046>>, delay_years |-> <<14>>,
      indefinite |-> FALSE, doe_202c |-> FALSE],
     [name |-> "Intermountain", state |-> "UT", original_retirement_year |-> 2025,
      revised_retirement_year |-> Null, delay_years |-> Null,
      indefinite |-> TRUE, doe_202c |-> FALSE],
     [name |-> "Clover", state |-> "VA", original_retirement_year |-> 2025,
      revised_retirement_year |-> <<2045>>, delay_years |-> <<20>>,
      indefinite |-> FALSE, doe_202c |-> FALSE],
     [name |-> "Centralia", state |-> "WA", original_retirement_year |-> 2025,
      revised_retirement_year |-> Null, delay_years |-> Null,
      indefinite |-> FALSE, doe_202c |-> TRUE],
     [name |-> "Columbia", state |-> "WI", original_retirement_year |-> 2026,
      revised_retirement_year |-> <<2029>>, delay_years |-> <<3>>,
      indefinite |-> FALSE, doe_202c |-> FALSE],
     [name |-> "Pleasants", state |-> "WV", original_retirement_year |-> 2018,
      revised_retirement_year |-> Null, delay_years |-> Null,
      indefinite |-> TRUE, doe_202c |-> FALSE],
     [name |-> "Dave Johnston", state |-> "WY", original_retirement_year |-> 2028,
      revised_retirement_year |-> <<2030>>, delay_years |-> <<2>>,
      indefinite |-> FALSE, doe_202c |-> FALSE],
     [name |-> "Jim Bridger", state |-> "WY", original_retirement_year |-> 2022,
      revised_retirement_year |-> <<2037>>, delay_years |-> <<15>>,
      indefinite |-> FALSE, doe_202c |-> FALSE],
     [name |-> "Wyodak", state |-> "WY", original_retirement_year |-> 2036,
      revised_retirement_year |-> Null, delay_years |-> Null,
      indefinite |-> TRUE, doe_202c |-> FALSE] >>

\* the elements of a sequence
Range(seq) == {seq[i] : i \in 1..Len(seq)}

\* the facility names of the rows the model's tables are filled from
InputNames ==
  {"E C Gaston", "Bowen", "Craig",
   "Gaston Steam Plant", "Bowen Station", "Craig Station", "Yampa Craig",
   "Bowen-Euharlee"}

\* the names given to normalizePlantName and findManualDelay on their own:
\* one to three words, stop words among them in every position, and names
\* with punctuation, with a stop word inside a word, with two spaces, with
\* no letter at all
ProbeNames ==
  LET words == {"Bowen", "Gaston", "Plant", "Steam", "Station"}
  IN words
       \cup {a \o " " \o b : a, b \in words}
       \cup {a \o " " \o b \o " " \o c : a, b, c \in words}
       \cup {"E.C. Gaston", "Big Powerton", "Craig  POWER", "Comanche", "C", "---", ""}

\* the states of the rows the model's tables are filled from
InputStates == {"AL", "GA", "CO"}

\* the names of the citations
CitationNames(data) == {e.name : e \in Range(data)}

\* the names that the model's runs compact: those of the inputs, of the
\* citations and of the probes
KnownNames == InputNames \cup CitationNames(MANUAL_DELAY_DATA) \cup ProbeNames

\* NormalizeName and CompactString tabulated once over the names of the runs
\* (f @@ <<>> is f, held as an explicit table)
NormalizedNames == [n \in InputNames |-> NormalizeName(n)] @@ <<>>
CompactNames == [n \in KnownNames |-> CompactString(n)] @@ <<>>

\* the fuel, status, generator and unit labels of the model's inputs
KnownWords ==
  {"", "coal", "gas", "Coal", "Gas", "operating", "existing", "Retired",
   "1", "2", "3", "A1", "Unit 1", "Unit 2", "wind"}

\* the keys `${plant_name}-${state}` of the inputs
KnownKeys == {n \o "-" \o st : n \in InputNames, st \in InputStates}

\* LowerString, DigitString and SplitString tabulated once
LoweredWords == [w \in KnownWords |-> LowerString(w)] @@ <<>>
DigitsOfWords == [w \in KnownWords |-> DigitString(w)] @@ <<>>
SplitKeys == [k \in KnownKeys |-> SplitString(k)] @@ <<>>

toLowerCase(s) == LoweredWords[s]

DigitsOf(s) == DigitsOfWords[s]

split(s) == SplitKeys[s]

normalizePlantName(name) == NormalizedNames[name]

CompactName(name) == CompactNames[name]

\* ------------------------------------------------------------------------
\* Maps in insertion order
\* ------------------------------------------------------------------------
MapHas(m, k) == \E i \in 1..Len(m) : m[i].key = k

\* Map.prototype.get; undefined is Null
MapGet(m, k) ==
  IF MapHas(m, k) THEN m[CHOOSE i \in 1..Len(m) : m[i].key = k].val ELSE Null

\* Map.prototype.set: a new key goes last, a known key keeps its place
MapSet(m, k, v) ==
  IF MapHas(m, k)
  THEN [i \in 1..Len(m) |-> IF m[i].key = k THEN [key |-> k, val |-> v] ELSE m[i]]
  ELSE Append(m, [key |-> k, val |-> v])

\* ------------------------------------------------------------------------
\* Manual delay index (route.ts 113-136)
\* ------------------------------------------------------------------------
\* the loop at route.ts 114-118 from entry i of data on (the test of Len(m)
\* has the map built so far evaluated before the next entry is set, as the
\* loop does)
RECURSIVE BuildManualDelayIndex(_, _, _)
BuildManualDelayIndex(data, m, i) ==
  IF Len(m) < 0 \/ i > Len(data) THEN m
  ELSE BuildManualDelayIndex(
         data,
         MapSet(m, CompactName(data[i].name) \o "-" \o data[i].state, data[i]),
         i + 1)

manualDelayByPlantState == BuildManualDelayIndex(MANUAL_DELAY_DATA, <<>>, 1)

\* the smallest element of a set of positive numbers, 0 for the empty set
First(S) == IF S = {} THEN 0 ELSE CHOOSE i \in S : \A j \in S : i <= j

\* PartialMatch without the test of the state
PartialMatchAnyState(entry, normalizedName, entryNormalizedName, st) ==
  \/ includes(normalizedName, entryNormalizedName)
  \/ includes(entryNormalizedName, normalizedName)

\* the condition of the partial match (route.ts 130)
PartialMatch(entry, normalizedName, entryNormalizedName, st) ==
  /\ endsWith(entry.key, "-" \o st)
  /\ \/ includes(normalizedName, entryNormalizedName)
     \/ includes(entryNormalizedName, normalizedName)

\* the value of entry i of a Map, Null when i is 0
ValueAt(m, i) == IF i = 0 THEN Null ELSE m[i].val

\* the loop at route.ts 128-133: the first entry that matches partially
PartialManualDelay(idx, normalizedName, st) ==
  ValueAt(idx,
          First({i \in 1..Len(idx) :
                   PartialMatch(idx[i], normalizedName, CompactName(idx[i].val.name), st)}))

\* route.ts 124-135 for the compacted name
LookupManualDelay(idx, normalizedName, st) ==
  IF MapHas(idx, normalizedName \o "-" \o st)
  THEN MapGet(idx, normalizedName \o "-" \o st)
  ELSE PartialManualDelay(idx, normalizedName, st)

\* the result is a ManualDelayEntry, or Null for undefined
FindManualDelay(plantName, st) ==
  LookupManualDelay(manualDelayByPlantState, CompactName(plantName), st)

\* FindManualDelay tabulated once over the names and states of the inputs
ManualDelays ==
  [p \in InputNames \X InputStates |-> FindManualDelay(p[1], p[2])] @@ <<>>

findManualDelay(plantName, st) == ManualDelays[<<plantName, st>>]

\* ------------------------------------------------------------------------
\* Dates
\* ------------------------------------------------------------------------
\* `${year}-12-31`
YearEnd(year) == <<year, 12, 31>>

\* new Date("YYYY-MM-DD") is midnight UTC of that day; DateValue orders dates
\* as their time values are ordered
DateValue(d) == (d[1] * 12 + (d[2] - 1)) * 31 + (d[3] - 1)

IsLeap(y) == (y % 4 = 0 /\ y % 100 # 0) \/ y % 400 = 0

DaysInMonth(y, m) ==
  IF m = 2 THEN (IF IsLeap(y) THEN 29 ELSE 28)
  ELSE IF m \in {4, 6, 9, 11} THEN 30 ELSE 31

\* the calendar day on which midnight UTC of d falls in the server's time
\* zone: the same day at or east of UTC, the day before west of UTC
LocalDay(d, west) ==
  IF ~west THEN d
  ELSE IF d[3] > 1 THEN <<d[1], d[2], d[3] - 1>>
  ELSE IF d[2] > 1 THEN <<d[1], d[2] - 1, DaysInMonth(d[1], d[2] - 1)>>
  ELSE <<d[1] - 1, 12, 31>>

\* Date.prototype.getFullYear, Date.prototype.getMonth (local time)
getFullYear(d, west) == LocalDay(d, west)[1]
getMonth(d, west) == LocalDay(d, west)[2] - 1


\* (later.getFullYear() - earlier.getFullYear()) * 12 + ... (route.ts 177)
MonthsApart(earlier, later, west) ==
  (getFullYear(later, west) - getFullYear(earlier, west)) * 12
    + (getMonth(later, west) - getMonth(earlier, west))

\* ------------------------------------------------------------------------
\* Request and data sources
\* ------------------------------------------------------------------------
VARIABLES
  tzWest,               \* the server's time zone is west of UTC
  gemTable,             \* rows of gem_retirement_data
  eiaTable,             \* rows of the latest snapshot of core_eia860__scd_generators
  state,                \* searchParams.get('state') || ''
  fuelType,             \* searchParams.get('fuelType') || ''
  page,                 \* parseInt(searchParams.get('page') || '1'): <<n>>, Null for NaN
  fault,                \* what goes wrong with the queries of this request
  pc,                   \* position of the handler
  latestReportDate,     \* Null when the generators table has no row
  gemData,              \* result of the GEM query
  gemByPlant,           \* Map `${plant_name}-${state}` -> units
  gemByNormalizedName,  \* Map `${normalized name}-${state}` -> keys of gemByPlant
  eiaGenerators,        \* result of the generators query
  plantMap,             \* Map plant_id_eia -> plant
  genIdx,               \* next generator of the loop at route.ts 293
  records,              \* merged records before deduplication
  seenGemPlants,        \* keys of gemByPlant matched by some generator
  deduplicatedRecords,  \* records after deduplication, then sorted
  response,             \* the JSON body returned, Null until then
  dedupIn,              \* a list of merged records given to Dedupe on its own
  dedupOut,             \* <<Dedupe(dedupIn)>> once computed
  dedupAgain,           \* <<Dedupe of the list in dedupOut>> once computed
  peer,                 \* a second invocation while it is suspended: its request
                        \* and locals; Null when there is one invocation
  probe,                \* a name and a state given to normalizePlantName and
                        \* findManualDelay on their own, with the results
  agg                   \* an invocation of GET of the aggregations route: its
                        \* position, what its queries answer, what it returned

vars ==
  <<tzWest, gemTable, eiaTable, state, fuelType, page, fault, pc,
    latestReportDate, gemData, gemByPlant, gemByNormalizedName, eiaGenerators, plantMap, genIdx,
    records, seenGemPlants, deduplicatedRecords, response,
    dedupIn, dedupOut, dedupAgain, peer, probe, agg>>

limit == 100

\* rows of core_eia__entity_plants
core_eia__entity_plants ==
  << [plant_id_eia |-> 1, plant_name_eia |-> "E C Gaston", state |-> "AL"],
     [plant_id_eia |-> 2, plant_name_eia |-> "Bowen", state |-> "GA"],
     [plant_id_eia |-> 3, plant_name_eia |-> "Craig", state |-> "CO"] >>

\* arr.filter(keep), keep given as the set of kept elements' indices
RECURSIVE FilterIdx(_, _, _)
FilterIdx(arr, keep, i) ==
  IF i > Len(arr) THEN <<>>
  ELSE (IF i \in keep THEN <<arr[i]>> ELSE <<>>) \o FilterIdx(arr, keep, i + 1)

\* stable insertion of row into rows ordered by before-or-equal relation
RECURSIVE InsertByYear(_, _)
InsertByYear(rows, row) ==
  IF rows = <<>> THEN <<row>>
  ELSE IF rows[Len(rows)].planned_retirement_year[1] <= row.planned_retirement_year[1]
  THEN Append(rows, row)
  ELSE Append(InsertByYear(SubSeq(rows, 1, Len(rows) - 1), row), rows[Len(rows)])

RECURSIVE OrderByYear(_, _)
OrderByYear(rows, i) ==
  IF i = 0 THEN <<>> ELSE InsertByYear(OrderByYear(rows, i - 1), rows[i])

\* rows ordered by planned year, rows of one year in the order of the table
OrderRows(rows) == OrderByYear(rows, Len(rows))

\* GemQuery without the filter on the fuel type
GemQueryAnyFuel(table, st, ft) ==
  OrderRows(
    FilterIdx(table,
              {i \in 1..Len(table) :
                 /\ table[i].planned_retirement_year # Null
                 /\ (st # "" => table[i].state = st)},
              1))

\* the GEM query (route.ts 205-219): planned year not null, ascending by
\* planned year, optional state equality, optional ilike '%fuelType%'
GemQuery(table, st, ft) ==
  OrderRows(
    FilterIdx(table,
              {i \in 1..Len(table) :
                 /\ table[i].planned_retirement_year # Null
                 /\ (st # "" => table[i].state = st)
                 /\ (ft # "" => includes(toLowerCase(table[i].fuel_type), toLowerCase(ft)))},
              1))

\* route.ts 231-234: the unit goes to the end of the group of its key
AddUnit(byPlant, key, gem) ==
  MapSet(byPlant, key,
         Append(IF MapHas(byPlant, key) THEN MapGet(byPlant, key) ELSE <<>>, gem))

\* route.ts 241-243: push(key) unless the array includes it
PushNew(keys, key) ==
  IF \E j \in 1..Len(keys) : keys[j] = key THEN keys ELSE Append(keys, key)

\* route.ts 237-243: the key goes to the keys of its normalized key
AddKey(byNorm, normalizedKey, key) ==
  MapSet(byNorm, normalizedKey,
         PushNew(IF MapHas(byNorm, normalizedKey) THEN MapGet(byNorm, normalizedKey)
                 ELSE <<>>,
                 key))

\* the loop at route.ts 229-244; the result is <<gemByPlant, gemByNormalizedName>>
RECURSIVE BuildGemIndex(_, _, _, _)
BuildGemIndex(data, i, byPlant, byNorm) ==
  IF i > Len(data) THEN <<byPlant, byNorm>>
  ELSE BuildGemIndex(
         data, i + 1,
         AddUnit(byPlant, data[i].plant_name \o "-" \o data[i].state, data[i]),
         AddKey(byNorm,
                normalizePlantName(data[i].plant_name) \o "-" \o data[i].state,
                data[i].plant_name \o "-" \o data[i].state))

\* the generators query (route.ts 255-274)
EiaQuery(table, ft) ==
  FilterIdx(table,
            {i \in 1..Len(table) :
               /\ table[i].generator_retirement_date = Null
               /\ table[i].fuel_type_code_pudl \in {"coal", "gas"}
               /\ (ft # "" => table[i].fuel_type_code_pudl = ft)},
            1)

\* the plants query and plantMap (route.ts 277-290)
RECURSIVE ToPlantMap(_, _, _)
ToPlantMap(plants, i, m) ==
  IF i > Len(plants) THEN m
  ELSE ToPlantMap(plants, i + 1, MapSet(m, plants[i].plant_id_eia, plants[i]))

\* the rows of tbl with an id in plantIds, in the state when one is asked for
PlantRows(tbl, plantIds, st) ==
  FilterIdx(tbl,
            {i \in 1..Len(tbl) :
               /\ tbl[i].plant_id_eia \in plantIds
               /\ (st # "" => tbl[i].state = st)},
            1)

PlantQuery(gens, st) ==
  ToPlantMap(PlantRows(core_eia__entity_plants,
                       {gens[i].plant_id_eia : i \in 1..Len(gens)}, st),
             1, <<>>)


\* ------------------------------------------------------------------------
\* Delay between two dates (route.ts 172-179)
\* ------------------------------------------------------------------------
\* calculateDelayMonths with months >= 0 in place of months > 0
calculateDelayMonthsGeq(earlierDate, laterDate) ==
  IF earlierDate = Null \/ laterDate = Null THEN Null
  ELSE IF DateValue(laterDate) <= DateValue(earlierDate) THEN Null
  ELSE LET months == MonthsApart(earlierDate, laterDate, tzWest)
       IN IF months >= 0 THEN <<months>> ELSE Null

\* calculateDelayMonths counting whole years only
calculateDelayMonthsYears(earlierDate, laterDate) ==
  IF earlierDate = Null \/ laterDate = Null THEN Null
  ELSE IF DateValue(laterDate) <= DateValue(earlierDate) THEN Null
  ELSE LET months == (getFullYear(laterDate, tzWest) - getFullYear(earlierDate, tzWest)) * 12
       IN IF months > 0 THEN <<months>> ELSE Null

calculateDelayMonths(earlierDate, laterDate) ==
  IF earlierDate = Null \/ laterDate = Null THEN Null
  ELSE IF DateValue(laterDate) <= DateValue(earlierDate) THEN Null
  ELSE LET months == MonthsApart(earlierDate, laterDate, tzWest)
       IN IF months > 0 THEN <<months>> ELSE Null

\* ------------------------------------------------------------------------
\* Cross-source matcher (route.ts 301-356)
\* ------------------------------------------------------------------------
\* The strategies give <<key>> for the key of gemByPlant they find, Null when
\* they find none.
\* `${gemName}-${plant.state}` of entry i of the alias table, Null when i is 0
AliasAt(entries, plant, i) ==
  IF i = 0 THEN Null ELSE <<entries[i].gemName \o "-" \o plant.state>>

\* the loop at route.ts 309-318 over the entries of the alias table
AliasKeyIn(entries, plant, byPlant) ==
  AliasAt(entries, plant,
          First({i \in 1..Len(entries) :
                   /\ entries[i].eiaName = plant.plant_name_eia
                   /\ MapHas(byPlant, entries[i].gemName \o "-" \o plant.state)}))

\* Strategy 2 (route.ts 309-318): the first alias of the plant name that is
\* present in gemByPlant
AliasKey(plant, byPlant) == AliasKeyIn(GEM_TO_EIA_NAME_MAP, plant, byPlant)

\* matchingGemKeys[0] when there is one (route.ts 325-326)
FirstKey(matchingGemKeys) ==
  IF matchingGemKeys # Null /\ Len(matchingGemKeys) > 0
  THEN <<matchingGemKeys[1]>> ELSE Null

\* Strategy 3 (route.ts 322-329)
NormalizedKey(plant, byNorm) ==
  FirstKey(MapGet(byNorm, normalizePlantName(plant.plant_name_eia) \o "-" \o plant.state))

\* route.ts 335-338 for the pieces of a key: const [gemName, gemState] = parts
PartsMatch(parts, plant, normalizedEia) ==
  /\ Len(parts) >= 2 /\ parts[2] = plant.state
  /\ \/ includes(normalizedEia, normalizePlantName(parts[1]))
     \/ includes(normalizePlantName(parts[1]), normalizedEia)

\* the key of entry i of a Map as <<key>>, Null when i is 0
KeyAt(m, i) == IF i = 0 THEN Null ELSE <<m[i].key>>

\* the loop at route.ts 334-343
PartialKeyFor(plant, byPlant, normalizedEia) ==
  KeyAt(byPlant,
        First({i \in 1..Len(byPlant) :
                 PartsMatch(split(byPlant[i].key), plant, normalizedEia)}))

\* Strategy 4 (route.ts 332-344)
PartialKey(plant, byPlant) ==
  PartialKeyFor(plant, byPlant, normalizePlantName(plant.plant_name_eia))

\* a || b on nullable values that are truthy when not null
OrElse(a, b) == IF a # Null THEN a ELSE b

\* Strategy 1 (route.ts 302-303)
DirectKey(gemKey, byPlant) == IF MapHas(byPlant, gemKey) THEN <<gemKey>> ELSE Null

\* MatchedGemKey with the normalized name tried before the exact key
MatchedGemKeyNormalizedFirst(plant, byPlant, byNorm) ==
  OrElse(NormalizedKey(plant, byNorm),
         OrElse(DirectKey(plant.plant_name_eia \o "-" \o plant.state, byPlant),
                OrElse(AliasKey(plant, byPlant), PartialKey(plant, byPlant))))

\* <<key>> for the GEM group matched to the plant, Null when no strategy
\* finds one (route.ts 302-344): each strategy is tried when those before it
\* found nothing
MatchedGemKey(plant, byPlant, byNorm) ==
  OrElse(DirectKey(plant.plant_name_eia \o "-" \o plant.state, byPlant),
         OrElse(AliasKey(plant, byPlant),
                OrElse(NormalizedKey(plant, byNorm), PartialKey(plant, byPlant))))

\* the unit at position i of the group; with i = 0 the first unit, Null for
\* an empty group
UnitAt(gemPlants, i) ==
  IF i # 0 THEN gemPlants[i]
  ELSE IF Len(gemPlants) > 0 THEN gemPlants[1]
  ELSE Null

\* gemPlants.find(...) || gemPlants[0] (route.ts 348-351)
SelectUnit(gemPlants, gen) ==
  UnitAt(gemPlants,
         First({i \in 1..Len(gemPlants) :
                  \/ includes(gemPlants[i].unit_name, gen.generator_id)
                  \/ includes(gen.generator_id, DigitsOf(gemPlants[i].unit_name))}))


\* ------------------------------------------------------------------------
\* Merge and delay engine (route.ts 358-425, 436-485)
\* ------------------------------------------------------------------------
\* truthiness of a number | null
Truthy(n) == n # Null /\ n[1] # 0

\* LaterDate with the comparison turned around
LaterDateReversed(eiaDate, gemDate) ==
  IF DateValue(eiaDate) < DateValue(gemDate) THEN eiaDate ELSE gemDate

\* new Date(eiaDate) > new Date(gemDate) ? eiaDate : gemDate (route.ts 371, 377)
LaterDate(eiaDate, gemDate) ==
  IF DateValue(eiaDate) > DateValue(gemDate) THEN eiaDate ELSE gemDate

\* new Date(eiaDate) < new Date(gemDate) ? eiaDate : gemDate (route.ts 376, 411)
EarlierDate(eiaDate, gemDate) ==
  IF DateValue(eiaDate) < DateValue(gemDate) THEN eiaDate ELSE gemDate

\* ApplyManualDelay with the revised year used only when no date is known yet
ApplyManualDelayIfNoDate(retirementDate, manualDelay) ==
  IF manualDelay = Null THEN retirementDate
  ELSE IF Truthy(manualDelay.revised_retirement_year)
  THEN OrElse(retirementDate, YearEnd(manualDelay.revised_retirement_year[1]))
  ELSE IF manualDelay.indefinite \/ manualDelay.doe_202c
  THEN OrElse(retirementDate, YearEnd(manualDelay.original_retirement_year))
  ELSE retirementDate

\* the retirement date after the manual delay data is applied (route.ts 384-392)
ApplyManualDelay(retirementDate, manualDelay) ==
  IF manualDelay = Null THEN retirementDate
  ELSE IF Truthy(manualDelay.revised_retirement_year)
  THEN YearEnd(manualDelay.revised_retirement_year[1])
  ELSE IF manualDelay.indefinite \/ manualDelay.doe_202c
  THEN OrElse(retirementDate, YearEnd(manualDelay.original_retirement_year))
  ELSE retirementDate

\* ShouldEmit with the citation as the only reason
ShouldEmitCitedOnly(retirementDate, manualDelay) == manualDelay # Null

\* ShouldEmit with every generator that has a plant pushed
ShouldEmitAlways(retirementDate, manualDelay) == TRUE

\* if (retirementDate || manualDelay) (route.ts 395)
ShouldEmit(retirementDate, manualDelay) == retirementDate # Null \/ manualDelay # Null

\* the object literal at route.ts 396-424, Null when the test at route.ts 395
\* fails; both is eiaDate && gemDate
EiaRecord(gen, plant, eiaDate, gemDate, both, delayMonths, manualDelay, retirementDate) ==
  IF ~ShouldEmit(retirementDate, manualDelay) THEN Null
  ELSE
    [plant_id_eia |-> <<gen.plant_id_eia>>,
     plant_name_eia |-> plant.plant_name_eia,
     generator_id |-> gen.generator_id,
     state |-> plant.state,
     fuel_type_code_pudl |-> <<gen.fuel_type_code_pudl>>,
     operational_status |-> gen.operational_status,
     planned_generator_retirement_date |->
       IF retirementDate # Null THEN retirementDate
       ELSE IF manualDelay # Null
       THEN YearEnd(IF Truthy(manualDelay.revised_retirement_year)
                    THEN manualDelay.revised_retirement_year[1]
                    ELSE manualDelay.original_retirement_year)
       ELSE Null,
     extended |->
       \/ (manualDelay # Null /\ manualDelay.delay_years # Null
             /\ manualDelay.delay_years[1] > 0)
       \/ (delayMonths # Null /\ delayMonths[1] > 0),
     original_retirement_date |->
       IF manualDelay # Null THEN YearEnd(manualDelay.original_retirement_year)
       ELSE IF Truthy(delayMonths) /\ both THEN EarlierDate(eiaDate, gemDate)
       ELSE Null,
     data_sources |->
       (IF eiaDate # Null THEN <<"eia">> ELSE <<>>)
         \o (IF gemDate # Null THEN <<"gem">> ELSE <<>>)
         \o (IF manualDelay # Null THEN <<"manual">> ELSE <<>>),
     eia_retirement_date |-> eiaDate,
     gem_retirement_date |-> gemDate,
     delay_months |->
       IF manualDelay # Null /\ Truthy(manualDelay.delay_years)
       THEN <<manualDelay.delay_years[1] * 12>> ELSE delayMonths,
     delay_years |->
       IF manualDelay # Null /\ manualDelay.delay_years # Null
       THEN manualDelay.delay_years
       ELSE IF Truthy(delayMonths) THEN <<(delayMonths[1] + 6) \div 12>>
       ELSE Null,
     original_planned_year |->
       IF manualDelay # Null THEN <<manualDelay.original_retirement_year>> ELSE Null,
     revised_planned_year |->
       IF manualDelay # Null THEN manualDelay.revised_retirement_year ELSE Null,
     indefinite_delay |-> manualDelay # Null /\ manualDelay.indefinite,
     doe_202c_order |-> manualDelay # Null /\ manualDelay.doe_202c]

\* route.ts 369-392 for the two dates and the citation of the plant
MergeDates(gen, plant, eiaDate, gemDate, both, manualDelay) ==
  EiaRecord(gen, plant, eiaDate, gemDate, both,
            calculateDelayMonths(IF both THEN EarlierDate(eiaDate, gemDate) ELSE Null,
                                 IF both THEN LaterDate(eiaDate, gemDate) ELSE Null),
            manualDelay,
            ApplyManualDelay(IF both THEN LaterDate(eiaDate, gemDate)
                             ELSE OrElse(eiaDate, gemDate),
                             manualDelay))

\* route.ts 359-381 for the two dates
MergeSources(gen, plant, eiaDate, gemDate) ==
  MergeDates(gen, plant, eiaDate, gemDate, eiaDate # Null /\ gemDate # Null,
             findManualDelay(plant.plant_name_eia, plant.state))

\* gemRetirementYear ? `${gemRetirementYear}-12-31` : null (route.ts 353, 360)
GemDateOf(gemMatch) ==
  IF gemMatch # Null /\ Truthy(gemMatch.planned_retirement_year)
  THEN YearEnd(gemMatch.planned_retirement_year[1]) ELSE Null

\* the record pushed for an EIA generator and its plant, given the GEM unit
\* selected for it (Null when none); Null when nothing is pushed
MergeEia(gen, plant, gemMatch) ==
  MergeSources(gen, plant, gen.planned_generator_retirement_date, GemDateOf(gemMatch))

\* the object literal at route.ts 456-484
GemOnlyRecord(gem, gemDate, manualDelay) ==
  [plant_id_eia |-> Null,
   plant_name_eia |-> gem.plant_name,
   generator_id |-> gem.unit_name,
   state |-> gem.state,
   fuel_type_code_pudl |->
     IF toLowerCase(gem.fuel_type) # "" THEN <<toLowerCase(gem.fuel_type)>> ELSE Null,
   operational_status |-> IF gem.status # "" THEN gem.status ELSE "operating",
   planned_generator_retirement_date |->
     IF manualDelay # Null /\ Truthy(manualDelay.revised_retirement_year)
     THEN YearEnd(manualDelay.revised_retirement_year[1]) ELSE gemDate,
   extended |-> manualDelay # Null /\ manualDelay.delay_years # Null
                  /\ manualDelay.delay_years[1] > 0,
   original_retirement_date |->
     IF manualDelay # Null THEN YearEnd(manualDelay.original_retirement_year) ELSE Null,
   data_sources |-> <<"gem">> \o (IF manualDelay # Null THEN <<"manual">> ELSE <<>>),
   eia_retirement_date |-> Null,
   gem_retirement_date |-> gemDate,
   delay_months |->
     IF manualDelay # Null /\ Truthy(manualDelay.delay_years)
     THEN <<manualDelay.delay_years[1] * 12>> ELSE Null,
   delay_years |-> IF manualDelay # Null THEN manualDelay.delay_years ELSE Null,
   original_planned_year |->
     IF manualDelay # Null THEN <<manualDelay.original_retirement_year>> ELSE Null,
   revised_planned_year |->
     IF manualDelay # Null THEN manualDelay.revised_retirement_year ELSE Null,
   indefinite_delay |-> manualDelay # Null /\ manualDelay.indefinite,
   doe_202c_order |-> manualDelay # Null /\ manualDelay.doe_202c]

\* the record pushed for a unit of an unmatched GEM group (route.ts 443-484)
MergeGemOnly(gem) ==
  GemOnlyRecord(gem, YearEnd(gem.planned_retirement_year[1]),
                findManualDelay(gem.plant_name, gem.state))

\* SkipUnit without the test of the status
SkipUnitKeepsRetired(gem, st) ==
  \/ ~Truthy(gem.planned_retirement_year)
  \/ (st # "" /\ gem.state # st)

\* the tests at route.ts 437-441
SkipUnit(gem, st) ==
  \/ ~Truthy(gem.planned_retirement_year)
  \/ toLowerCase(gem.status) = "retired"
  \/ (st # "" /\ gem.state # st)

\* GemOnlyUnits that leaves the group after its first pushed unit
RECURSIVE GemOnlyUnitsFirstOnly(_, _, _)
GemOnlyUnitsFirstOnly(gemUnits, st, i) ==
  IF i > Len(gemUnits) THEN <<>>
  ELSE IF SkipUnit(gemUnits[i], st) THEN GemOnlyUnitsFirstOnly(gemUnits, st, i + 1)
  ELSE <<MergeGemOnly(gemUnits[i])>>

\* the units of one GEM group that the loop at route.ts 436-485 pushes
RECURSIVE GemOnlyUnits(_, _, _)
GemOnlyUnits(gemUnits, st, i) ==
  IF i > Len(gemUnits) THEN <<>>
  ELSE (IF SkipUnit(gemUnits[i], st) THEN <<>> ELSE <<MergeGemOnly(gemUnits[i])>>)
         \o GemOnlyUnits(gemUnits, st, i + 1)

\* the records pushed by the loop at route.ts 433-486
RECURSIVE GemOnlyRecords(_, _, _, _)
GemOnlyRecords(byPlant, seen, st, i) ==
  IF i > Len(byPlant) THEN <<>>
  ELSE (IF byPlant[i].key \in seen THEN <<>> ELSE GemOnlyUnits(byPlant[i].val, st, 1))
         \o GemOnlyRecords(byPlant, seen, st, i + 1)

\* ------------------------------------------------------------------------
\* Deduplicator (route.ts 492-515)
\* ------------------------------------------------------------------------
\* DedupKey without the unit number
DedupKeyPlant(record) ==
  normalizePlantName(record.plant_name_eia) \o "-" \o record.state

\* `${normalizedName}-${record.state}-${unitNum}`
DedupKey(record) ==
  normalizePlantName(record.plant_name_eia) \o "-" \o record.state
    \o "-" \o DigitsOf(record.generator_id)

\* Replaces without the preference for the EIA record on a tie
ReplacesNoTie(record, existing) ==
  Len(record.data_sources) > Len(existing.data_sources)

\* whether record replaces the record already kept for its key
Replaces(record, existing) ==
  \/ Len(record.data_sources) > Len(existing.data_sources)
  \/ /\ Len(record.data_sources) = Len(existing.data_sources)
     /\ record.plant_id_eia # Null
     /\ existing.plant_id_eia = Null

\* route.ts 499-511 for one record and its key
Keep(seenRecords, key, record) ==
  IF ~MapHas(seenRecords, key) THEN MapSet(seenRecords, key, record)
  ELSE IF Replaces(record, MapGet(seenRecords, key))
  THEN MapSet(seenRecords, key, record)
  ELSE seenRecords

\* the loop at route.ts 493-513 from record i on
RECURSIVE DedupLoop(_, _, _)
DedupLoop(recs, i, seenRecords) ==
  IF i > Len(recs) THEN seenRecords
  ELSE DedupLoop(recs, i + 1, Keep(seenRecords, DedupKey(recs[i]), recs[i]))

\* Map.prototype.values, in insertion order
Values(m) == [i \in 1..Len(m) |-> m[i].val]

\* the values of a Map from the last key to the first
ValuesReversed(m) == [i \in 1..Len(m) |-> m[Len(m) + 1 - i].val]

\* Dedupe with the kept records listed from the last key to the first
DedupeReversed(recs) == ValuesReversed(DedupLoop(recs, 1, <<>>))

\* Array.from(seenRecords.values())
Dedupe(recs) == Values(DedupLoop(recs, 1, <<>>))

\* ------------------------------------------------------------------------
\* Sorter and paginator (route.ts 520-537)
\* ------------------------------------------------------------------------
\* SortDate with a null date before every date
SortDateNullFirst(record) == OrElse(record.planned_generator_retirement_date, <<0, 1, 1>>)

\* a.planned_generator_retirement_date || '9999-12-31'
SortDate(record) == OrElse(record.planned_generator_retirement_date, <<9999, 12, 31>>)

\* dateA.localeCompare(dateB) <= 0 on "YYYY-MM-DD" strings
DateLeq(a, b) ==
  \/ a[1] < b[1]
  \/ a[1] = b[1] /\ a[2] < b[2]
  \/ a[1] = b[1] /\ a[2] = b[2] /\ a[3] <= b[3]

\* Array.prototype.sort is stable: the place of recs[i] among the first n
\* records is after the records with an earlier date and after the records
\* with its date that stand before it
SortedPosition(recs, n, i) ==
  Cardinality({j \in 1..n :
                 \/ ~DateLeq(SortDate(recs[i]), SortDate(recs[j]))
                 \/ j <= i /\ SortDate(recs[j]) = SortDate(recs[i])})

\* the records listed by their places
Arrange(recs, pos) ==
  [k \in DOMAIN pos |-> recs[CHOOSE i \in DOMAIN pos : pos[i] = k]]

\* the first n records of recs sorted by date (route.ts 520-524)
SortByDate(recs, n) ==
  Arrange(recs, [i \in 1..n |-> SortedPosition(recs, n, i)] @@ <<>>)

Max(a, b) == IF a > b THEN a ELSE b
Min(a, b) == IF a < b THEN a ELSE b

\* Array.prototype.slice(start, end)
slice(arr, start, end) ==
  LET n == Len(arr)
      from == IF start < 0 THEN Max(n + start, 0) ELSE Min(start, n)
      to == IF end < 0 THEN Max(n + end, 0) ELSE Min(end, n)
  IN IF from < to THEN SubSeq(arr, from + 1, to) ELSE <<>>

\* CeilDiv rounding down
FloorDiv(a, b) == a \div b

\* Math.ceil(totalCount / limit)
CeilDiv(a, b) == (a + b - 1) \div b

\* the number that the digits of s from position i on continue acc to; Null
\* (NaN) when acc is Null and no digit stands at i
RECURSIVE ParseDigits(_, _, _)
ParseDigits(s, i, acc) ==
  IF i > Len(s) \/ CharAt(s, i) \notin Digits THEN acc
  ELSE ParseDigits(s, i + 1,
                   <<(IF acc = Null THEN 0 ELSE acc[1]) * 10
                       + (CHOOSE d \in 0..9 : ToString(d) = CharAt(s, i))>>)

\* parseInt(s) without a radix, for s without leading white space or "0x":
\* an optional sign and the longest prefix of decimal digits; NaN is Null
parseInt(s) ==
  IF startsWith(s, "-")
  THEN (IF ParseDigits(s, 2, Null) = Null THEN Null
        ELSE <<0 - ParseDigits(s, 2, Null)[1]>>)
  ELSE IF startsWith(s, "+") THEN ParseDigits(s, 2, Null)
  ELSE ParseDigits(s, 1, Null)

\* searchParams.get('page') || '1': an absent or empty parameter reads '1'
PageParam(p) == IF p = NullString \/ p = "" THEN "1" ELSE p

\* slice's reading of (page - 1) * limit plus k: NaN reads 0 (route.ts 188, 527)
Offset(p, k) == IF p = Null THEN 0 ELSE (p[1] - 1) * limit + k

\* the body of the response (route.ts 526-537); JSON writes a NaN page as null
PageOf(sorted, p) ==
  [data |-> slice(sorted, Offset(p, 0), Offset(p, limit)),
   pagination |-> [page |-> p, limit |-> limit, total |-> Len(sorted),
                   totalPages |-> CeilDiv(Len(sorted), limit)]]


\* ------------------------------------------------------------------------
\* Inputs
\* ------------------------------------------------------------------------
EiaRow(p, g, f, d) ==
  [plant_id_eia |-> p, generator_id |-> g, fuel_type_code_pudl |-> f,
   operational_status |-> "existing",
   planned_generator_retirement_date |-> d, generator_retirement_date |-> Null]

\* rows the generators table is filled from; plants 1, 2, 3 are E C Gaston
\* (AL), Bowen (GA) and Craig (CO)
EiaRows ==
  { EiaRow(1, "1", "coal", Null),
    EiaRow(1, "1", "coal", <<2028, 12, 15>>),
    EiaRow(1, "A1", "gas", <<2029, 1, 1>>),
    EiaRow(1, "2", "coal", <<2028, 12, 31>>),
    EiaRow(2, "1", "coal", <<2028, 12, 15>>),
    EiaRow(2, "2", "coal", Null),
    EiaRow(3, "1", "coal", Null) }

GemRow(n, u, st, s, f, y) ==
  [plant_name |-> n, unit_name |-> u, state |-> st, status |-> s,
   fuel_type |-> f, planned_retirement_year |-> <<y>>]

\* rows the GEM table is filled from
GemRows ==
  { GemRow("Gaston Steam Plant", "Unit 1", "AL", "operating", "Coal", 2028),
    GemRow("Gaston Steam Plant", "Unit 2", "AL", "operating", "Coal", 2040),
    GemRow("Bowen", "Unit 1", "GA", "operating", "Coal", 2040),
    GemRow("Bowen Station", "1", "GA", "operating", "Gas", 2028),
    GemRow("Craig Station", "Unit 1", "CO", "Retired", "Coal", 2028),
    GemRow("Yampa Craig", "3", "CO", "operating", "Coal", 2030) }

\* the sequences of at most n distinct elements of S
SeqsUpTo(S, n) ==
  UNION {{q \in [1..k -> S] : \A i, j \in 1..k : i # j => q[i] # q[j]} : k \in 0..n}

\* (plant_id_eia, generator_id) identifies a generator of one snapshot
UniqueGenerators(t) ==
  \A i, j \in 1..Len(t) :
    (i # j) => <<t[i].plant_id_eia, t[i].generator_id>>
                 # <<t[j].plant_id_eia, t[j].generator_id>>

\* the query parameters of the request: the state and fuel filters in all
\* combinations on the first page, and a page past the last one
Requests ==
  {[state |-> st, fuelType |-> ft, page |-> "1"] : st \in {"", "AL"}, ft \in {"", "coal"}}
    \cup {[state |-> "", fuelType |-> "", page |-> "2"]}

\* a merged record as the deduplicator sees it: name, state, generator or
\* unit id, provenance and EIA plant id; the other fields are carried along
MergedRec(n, st, g, src, pid) ==
  [plant_id_eia |-> pid, plant_name_eia |-> n, generator_id |-> g, state |-> st,
   fuel_type_code_pudl |-> <<"coal">>, operational_status |-> "operating",
   planned_generator_retirement_date |-> <<2030, 12, 31>>,
   extended |-> FALSE, original_retirement_date |-> Null,
   data_sources |-> src,
   eia_retirement_date |-> IF pid # Null THEN <<2030, 12, 31>> ELSE Null,
   gem_retirement_date |-> IF pid = Null THEN <<2030, 12, 31>> ELSE Null,
   delay_months |-> Null, delay_years |-> Null,
   original_planned_year |-> Null, revised_planned_year |-> Null,
   indefinite_delay |-> FALSE, doe_202c_order |-> FALSE]

MergedRecs ==
  { MergedRec(n, "GA", g, sp[1], sp[2]) :
      n \in {"Bowen", "Bowen Station"},
      g \in {"1", "A1", "2"},
      sp \in { <<(<<"gem">>), Null>>,
               <<(<<"gem", "manual">>), Null>>,
               <<(<<"eia", "manual">>), <<2>> >> } }

\* ------------------------------------------------------------------------
\* The handler GET (route.ts 181-543)
\* ------------------------------------------------------------------------
Idle ==
  /\ latestReportDate = Null
  /\ gemData = <<>>
  /\ gemByPlant = <<>>
  /\ gemByNormalizedName = <<>>
  /\ eiaGenerators = <<>>
  /\ plantMap = <<>>
  /\ genIdx = 1
  /\ records = <<>>
  /\ seenGemPlants = {}
  /\ deduplicatedRecords = <<>>
  /\ response = Null

Init ==
  /\ tzWest \in BOOLEAN
  /\ eiaTable \in SeqsUpTo(EiaRows, MaxRows)
  /\ UniqueGenerators(eiaTable)
  /\ gemTable \in SeqsUpTo(GemRows, MaxRows - Len(eiaTable))
  /\ \E rq \in Requests :
       /\ state = rq.state
       /\ fuelType = rq.fuelType
       /\ page = parseInt(PageParam(rq.page))
  /\ fault = "none"
  /\ pc = "start"
  /\ Idle
  /\ dedupIn = <<>>
  /\ dedupOut = Null
  /\ dedupAgain = Null
  /\ peer = Null
  /\ probe = Null
  /\ agg = Null

inputs == <<tzWest, gemTable, eiaTable, state, fuelType, page, fault>>
dedupVars == <<dedupIn, dedupOut, dedupAgain>>

\* GemDataOf reading the rows of a query that reports an error
GemDataDespiteError(table, st, ft, flt) == GemQuery(table, st, ft)

\* gemData || [] (route.ts 219, 229): the rows of the GEM query, none when
\* the query reports an error
GemDataOf(table, st, ft, flt) ==
  IF flt = "gemError" THEN <<>> ELSE GemQuery(table, st, ft)

\* an exception leaves route.ts 194-244: the GEM query rejects, or the index
\* loop meets a row whose plant_name is null: normalizePlantName at route.ts
\* 237 reads name.toLowerCase (route.ts 44), a TypeError
ThrowsAtGem ==
  \/ fault = "gemThrows"
  \/ \E gem \in Range(GemDataOf(gemTable, state, fuelType, fault)) :
       gem.plant_name = NullString

\* an exception leaves route.ts 252-290: the generators query rejects
ThrowsAtEia == fault = "generatorsThrows" /\ latestReportDate # Null

\* route.ts 194-244: latest report date, GEM query, GEM indexes
FetchGem ==
  /\ pc = "start"
  /\ ~ThrowsAtGem
  /\ latestReportDate' =
       IF fault # "dateError" /\ Len(eiaTable) > 0 THEN <<1>> ELSE Null
  /\ gemData' = GemDataOf(gemTable, state, fuelType, fault)
  /\ gemByPlant' = BuildGemIndex(gemData', 1, <<>>, <<>>)[1]
  /\ gemByNormalizedName' = BuildGemIndex(gemData', 1, <<>>, <<>>)[2]
  /\ pc' = "eia"
  /\ UNCHANGED <<inputs, dedupVars, peer, probe, agg, eiaGenerators, plantMap, genIdx, records,
                 seenGemPlants, deduplicatedRecords, response>>

\* route.ts 252-290: generators and plants of the latest report
FetchEia ==
  /\ pc = "eia"
  /\ ~ThrowsAtEia
  /\ eiaGenerators' =
       IF latestReportDate # Null /\ fault # "generatorsError"
       THEN EiaQuery(eiaTable, fuelType) ELSE <<>>
  /\ plantMap' =
       IF Len(eiaGenerators') > 0 /\ fault # "plantsError"
       THEN PlantQuery(eiaGenerators', state) ELSE <<>>
  /\ pc' = "generators"
  /\ UNCHANGED <<inputs, dedupVars, peer, probe, agg, latestReportDate, gemData, gemByPlant,
                 gemByNormalizedName, genIdx, records, seenGemPlants,
                 deduplicatedRecords, response>>

\* the unit selected for gen in the group of key k, Null when k is Null
\* (route.ts 347-351)
UnitOfKey(byPlant, k, gen) ==
  IF k = Null THEN Null ELSE SelectUnit(MapGet(byPlant, k[1]), gen)

\* the GEM unit selected for generator gen of plant, Null when no group is
\* matched (route.ts 297-356)
GemMatchOf(gen, plant) ==
  UnitOfKey(gemByPlant, MatchedGemKey(plant, gemByPlant, gemByNormalizedName), gen)

\* Push without the mark of the matched key
PushWithoutMark(k, gemMatch, rec) ==
  /\ seenGemPlants' = seenGemPlants
  /\ records' = IF rec # Null THEN Append(records, rec) ELSE records

\* route.ts 352-355 and 395-396: the matched key is marked, the record pushed
Push(k, gemMatch, rec) ==
  /\ seenGemPlants' = IF gemMatch # Null THEN seenGemPlants \cup {k[1]}
                      ELSE seenGemPlants
  /\ records' = IF rec # Null THEN Append(records, rec) ELSE records

\* route.ts 347-425 for the key matched to the plant
PushMatched(gen, plant, k) ==
  Push(k, UnitOfKey(gemByPlant, k, gen),
       MergeEia(gen, plant, UnitOfKey(gemByPlant, k, gen)))

\* route.ts 294-425 for one generator and the plant of plantMap, if any
PushGenerator(gen, plant) ==
  IF plant = Null
  THEN UNCHANGED <<records, seenGemPlants>>
  ELSE PushMatched(gen, plant, MatchedGemKey(plant, gemByPlant, gemByNormalizedName))

\* one iteration of the loop at route.ts 293-426
ProcessGenerator ==
  /\ pc = "generators"
  /\ genIdx <= Len(eiaGenerators)
  /\ PushGenerator(eiaGenerators[genIdx],
                   MapGet(plantMap, eiaGenerators[genIdx].plant_id_eia))
  /\ genIdx' = genIdx + 1
  /\ UNCHANGED <<inputs, dedupVars, peer, probe, agg, pc, latestReportDate, gemData, gemByPlant,
                 gemByNormalizedName, eiaGenerators, plantMap,
                 deduplicatedRecords, response>>

\* route.ts 433-486: units of the GEM groups no generator matched
AddGemOnly ==
  /\ pc = "generators"
  /\ genIdx > Len(eiaGenerators)
  /\ records' = records \o GemOnlyRecords(gemByPlant, seenGemPlants, state, 1)
  /\ pc' = "dedup"
  /\ UNCHANGED <<inputs, dedupVars, peer, probe, agg, latestReportDate, gemData, gemByPlant,
                 gemByNormalizedName, eiaGenerators, plantMap, genIdx,
                 seenGemPlants, deduplicatedRecords, response>>

\* route.ts 492-515
Deduplicate ==
  /\ pc = "dedup"
  /\ deduplicatedRecords' = Dedupe(records)
  /\ pc' = "sort"
  /\ UNCHANGED <<inputs, dedupVars, peer, probe, agg, latestReportDate, gemData, gemByPlant,
                 gemByNormalizedName, eiaGenerators, plantMap, genIdx, records,
                 seenGemPlants, response>>

\* route.ts 520-537
SortAndPaginate ==
  /\ pc = "sort"
  /\ deduplicatedRecords' = SortByDate(deduplicatedRecords, Len(deduplicatedRecords))
  /\ response' = PageOf(deduplicatedRecords', page)
  /\ pc' = "done"
  /\ UNCHANGED <<inputs, dedupVars, peer, probe, agg, latestReportDate, gemData, gemByPlant,
                 gemByNormalizedName, eiaGenerators, plantMap, genIdx, records,
                 seenGemPlants>>

Next ==
  \/ FetchGem
  \/ FetchEia
  \/ ProcessGenerator
  \/ AddGemOnly
  \/ Deduplicate
  \/ SortAndPaginate

Spec == Init /\ [][Next]_vars

\* ------------------------------------------------------------------------
\* Requests that meet failing queries, null names and odd parameters
\* ------------------------------------------------------------------------
\* the catch clause (route.ts 539-542): the body of the status 500 response
Fail ==
  /\ \/ pc = "start" /\ ThrowsAtGem
     \/ pc = "eia" /\ ThrowsAtEia
  /\ pc' = "failed"
  /\ response' = [error |-> "Internal server error"]
  /\ UNCHANGED <<inputs, dedupVars, peer, probe, agg, latestReportDate, gemData, gemByPlant,
                 gemByNormalizedName, eiaGenerators, plantMap, genIdx, records,
                 seenGemPlants, deduplicatedRecords>>

FaultEiaRows ==
  { EiaRow(1, "1", "coal", Null),
    EiaRow(1, "A1", "gas", <<2029, 1, 1>>),
    EiaRow(2, "1", "coal", <<2028, 12, 15>>) }

\* GEM rows, one of them without a planned year, one without a name and one
\* with a hyphen in its name
FaultGemRows ==
  { GemRow("Gaston Steam Plant", "Unit 1", "AL", "operating", "Coal", 2028),
    GemRow("Bowen-Euharlee", "Unit 1", "GA", "operating", "Coal", 2035),
    GemRow("Bowen Station", "1", "GA", "operating", "Gas", 2028),
    GemRow("Craig Station", "Unit 1", "CO", "Retired", "Coal", 2028),
    GemRow("Yampa Craig", "3", "CO", "operating", "Coal", 2030),
    [GemRow("Bowen", "Unit 1", "GA", "operating", "Coal", 2040)
       EXCEPT !.planned_retirement_year = Null],
    GemRow(NullString, "Unit 1", "AL", "operating", "Coal", 2030) }

\* the request without filters on page 1
PlainRequest == [state |-> "", fuelType |-> "", page |-> "1"]

\* requests with odd parameters while the queries work (the page absent,
\* empty, zero, negative, not a number, past the end), and the plain request
\* while one query reports an error or rejects
FaultCases ==
  {[request |-> [PlainRequest EXCEPT !.page = p], fault |-> "none"] :
     p \in {NullString, "", "0", "-1", "abc", "2"}}
    \cup {[request |-> [PlainRequest EXCEPT !.state = "ZZ"], fault |-> "none"],
          [request |-> [PlainRequest EXCEPT !.fuelType = "wind"], fault |-> "none"],
          [request |-> [PlainRequest EXCEPT !.fuelType = "coal"], fault |-> "none"]}
    \cup {[request |-> PlainRequest, fault |-> f] :
            f \in {"none", "gemError", "dateError", "generatorsError", "plantsError",
                   "gemThrows", "generatorsThrows"}}

FaultInit ==
  /\ tzWest = FALSE
  /\ eiaTable \in SeqsUpTo(FaultEiaRows, MaxRows)
  /\ gemTable \in SeqsUpTo(FaultGemRows, MaxRows - Len(eiaTable))
  /\ \E c \in FaultCases :
       /\ state = c.request.state
       /\ fuelType = c.request.fuelType
       /\ page = parseInt(PageParam(c.request.page))
       /\ fault = c.fault
  /\ pc = "start"
  /\ Idle
  /\ dedupIn = <<>>
  /\ dedupOut = Null
  /\ dedupAgain = Null
  /\ peer = Null
  /\ probe = Null
  /\ agg = Null

FaultNext == Next \/ Fail

FaultSpec == FaultInit /\ [][FaultNext]_vars

\* ------------------------------------------------------------------------
\* The sorter and paginator applied to any deduplicated set
\* ------------------------------------------------------------------------
\* a deduplicated record of unit g with planned date d
DatedRec(g, d) ==
  [MergedRec("Bowen", "GA", g, <<"gem">>, Null)
     EXCEPT !.planned_generator_retirement_date = d]

DatedRecs ==
  { DatedRec("1", Null), DatedRec("2", <<2028, 12, 31>>),
    DatedRec("3", <<2030, 6, 30>>), DatedRec("4", <<2030, 12, 31>>) }

\* n deduplicated records of distinct units, a planned year for every hundred
ManyRecs(n) ==
  [i \in 1..n |-> DatedRec(ToString(i), YearEnd(2030 + (i \div 100)))]

\* the handler at route.ts 520 with the deduplicated set at hand: a few
\* records in any order or a set of a size around the page size, and any
\* parsed page number, NaN among them
PageInit ==
  /\ tzWest = FALSE
  /\ eiaTable = <<>>
  /\ gemTable = <<>>
  /\ state = ""
  /\ fuelType = ""
  /\ page \in {Null} \cup {<<p>> : p \in -2..4}
  /\ fault = "none"
  /\ pc = "sort"
  /\ latestReportDate = Null
  /\ gemData = <<>>
  /\ gemByPlant = <<>>
  /\ gemByNormalizedName = <<>>
  /\ eiaGenerators = <<>>
  /\ plantMap = <<>>
  /\ genIdx = 1
  /\ seenGemPlants = {}
  /\ deduplicatedRecords \in
       SeqsUpTo(DatedRecs, MaxRecs) \cup {ManyRecs(n) : n \in {0, 1, 100, 101, 150, 250}}
  /\ records = deduplicatedRecords
  /\ response = Null
  /\ dedupIn = <<>>
  /\ dedupOut = Null
  /\ dedupAgain = Null
  /\ peer = Null
  /\ probe = Null
  /\ agg = Null

PageSpec == PageInit /\ [][SortAndPaginate]_vars

\* ------------------------------------------------------------------------
\* Two invocations of GET in one process
\* ------------------------------------------------------------------------
\* the request and the locals (route.ts 184-188, 194-515) of the invocation
\* that runs
Running ==
  [state |-> state, fuelType |-> fuelType, page |-> page, pc |-> pc,
   latestReportDate |-> latestReportDate, gemData |-> gemData,
   gemByPlant |-> gemByPlant, gemByNormalizedName |-> gemByNormalizedName,
   eiaGenerators |-> eiaGenerators, plantMap |-> plantMap, genIdx |-> genIdx,
   records |-> records, seenGemPlants |-> seenGemPlants,
   deduplicatedRecords |-> deduplicatedRecords, response |-> response]

\* the invocation inv runs on: its locals other than records are the locals
\* of the code that runs
ResumeBut(inv) ==
  /\ state' = inv.state
  /\ fuelType' = inv.fuelType
  /\ page' = inv.page
  /\ pc' = inv.pc
  /\ latestReportDate' = inv.latestReportDate
  /\ gemData' = inv.gemData
  /\ gemByPlant' = inv.gemByPlant
  /\ gemByNormalizedName' = inv.gemByNormalizedName
  /\ eiaGenerators' = inv.eiaGenerators
  /\ plantMap' = inv.plantMap
  /\ genIdx' = inv.genIdx
  /\ seenGemPlants' = inv.seenGemPlants
  /\ deduplicatedRecords' = inv.deduplicatedRecords
  /\ response' = inv.response

\* Switch with one records array for both invocations
SwitchSharingRecords ==
  /\ pc \in {"start", "eia", "done"}
  /\ peer.pc # "done"
  /\ peer' = Running
  /\ ResumeBut(peer)
  /\ records' = records
  /\ UNCHANGED <<tzWest, gemTable, eiaTable, fault, dedupVars, probe, agg>>

\* the invocation that runs is suspended at an await of route.ts 194-289 or
\* has returned, and the other invocation runs on; records, like every local
\* declared in GET (route.ts 226-250), belongs to its invocation
Switch ==
  /\ pc \in {"start", "eia", "done"}
  /\ peer.pc # "done"
  /\ peer' = Running
  /\ ResumeBut(peer)
  /\ records' = peer.records
  /\ UNCHANGED <<tzWest, gemTable, eiaTable, fault, dedupVars, probe, agg>>

\* two requests over the same tables, none started
ConcInit ==
  /\ tzWest = FALSE
  /\ eiaTable \in SeqsUpTo(FaultEiaRows, MaxRows)
  /\ gemTable \in SeqsUpTo({g \in FaultGemRows :
                               /\ g.plant_name # NullString
                               /\ g.planned_retirement_year # Null},
                            MaxRows - Len(eiaTable))
  /\ \E first \in {rq \in Requests : rq.state = "AL" \/ rq.fuelType = "coal"},
        second \in {rq \in Requests : rq.state = "" /\ rq.fuelType = ""} :
       /\ state = first.state
       /\ fuelType = first.fuelType
       /\ page = parseInt(PageParam(first.page))
       /\ peer = [state |-> second.state, fuelType |-> second.fuelType,
                  page |-> parseInt(PageParam(second.page)), pc |-> "start",
                  latestReportDate |-> Null, gemData |-> <<>>, gemByPlant |-> <<>>,
                  gemByNormalizedName |-> <<>>, eiaGenerators |-> <<>>,
                  plantMap |-> <<>>, genIdx |-> 1, records |-> <<>>,
                  seenGemPlants |-> {}, deduplicatedRecords |-> <<>>,
                  response |-> Null]
  /\ fault = "none"
  /\ pc = "start"
  /\ Idle
  /\ dedupIn = <<>>
  /\ dedupOut = Null
  /\ dedupAgain = Null
  /\ probe = Null
  /\ agg = Null

ConcNext == Next \/ Switch

ConcSpec == ConcInit /\ [][ConcNext]_vars

\* ------------------------------------------------------------------------
\* The deduplicator applied on its own to any list of merged records
\* ------------------------------------------------------------------------
DedupInit ==
  /\ tzWest = FALSE
  /\ eiaTable = <<>>
  /\ gemTable = <<>>
  /\ state = ""
  /\ fuelType = ""
  /\ page = <<1>>
  /\ fault = "none"
  /\ pc = "dedupe"
  /\ Idle
  /\ dedupIn \in SeqsUpTo(MergedRecs, MaxRecs)
  /\ dedupOut = Null
  /\ dedupAgain = Null
  /\ peer = Null
  /\ probe = Null
  /\ agg = Null

pipelineVars ==
  <<pc, latestReportDate, gemData, gemByPlant, gemByNormalizedName,
    eiaGenerators, plantMap, genIdx, records, seenGemPlants,
    deduplicatedRecords, response>>

ApplyDedupe ==
  /\ pc = "dedupe"
  /\ dedupOut = Null
  /\ dedupOut' = <<Dedupe(dedupIn)>>
  /\ UNCHANGED <<inputs, pipelineVars, peer, probe, agg, dedupIn, dedupAgain>>

ApplyDedupeAgain ==
  /\ pc = "dedupe"
  /\ dedupOut # Null
  /\ dedupAgain = Null
  /\ dedupAgain' = <<Dedupe(dedupOut[1])>>
  /\ UNCHANGED <<inputs, pipelineVars, peer, probe, agg, dedupIn, dedupOut>>

DedupNext == ApplyDedupe \/ ApplyDedupeAgain

DedupSpec == DedupInit /\ [][DedupNext]_vars

\* ------------------------------------------------------------------------
\* normalizePlantName and findManualDelay applied on their own
\* ------------------------------------------------------------------------
NameInit ==
  /\ tzWest = FALSE
  /\ eiaTable = <<>>
  /\ gemTable = <<>>
  /\ state = ""
  /\ fuelType = ""
  /\ page = <<1>>
  /\ fault = "none"
  /\ pc = "probe"
  /\ Idle
  /\ dedupIn = <<>>
  /\ dedupOut = Null
  /\ dedupAgain = Null
  /\ peer = Null
  /\ probe \in [name : ProbeNames, state : InputStates,
                normalized : {Null}, again : {Null}, delay : {Null}]
  /\ agg = Null

\* normalizePlantName(name) (route.ts 43-49)
Normalize ==
  /\ pc = "probe"
  /\ probe.normalized = Null
  /\ probe' = [probe EXCEPT !.normalized = <<NormalizeName(probe.name)>>]
  /\ UNCHANGED <<inputs, pipelineVars, dedupVars, peer, agg>>

\* normalizePlantName applied to its own result
NormalizeAgain ==
  /\ pc = "probe"
  /\ probe.normalized # Null
  /\ probe.again = Null
  /\ probe' = [probe EXCEPT !.again = <<NormalizeName(probe.normalized[1])>>]
  /\ UNCHANGED <<inputs, pipelineVars, dedupVars, peer, agg>>

\* findManualDelay(name, state) (route.ts 120-136)
Lookup ==
  /\ pc = "probe"
  /\ probe.delay = Null
  /\ probe' = [probe EXCEPT !.delay = <<FindManualDelay(probe.name, probe.state)>>]
  /\ UNCHANGED <<inputs, pipelineVars, dedupVars, peer, agg>>

NameNext == Normalize \/ NormalizeAgain \/ Lookup

NameSpec == NameInit /\ [][NameNext]_vars

\* ------------------------------------------------------------------------
\* GET of the aggregations route (aggregations/route.ts 53-100, 146-243)
\* ------------------------------------------------------------------------
\* one request; what the static data, the RPC and each execution of the
\* fallback query answer is drawn here: the static data hold the result,
\* hold none for the filters ("miss") or cannot be loaded ("none"); the RPC
\* returns data, returns an error (of code PGRST202 or another) or throws;
\* the query of fallbackQuery returns rows, returns an error or throws
AggInit ==
  /\ tzWest = FALSE
  /\ eiaTable = <<>>
  /\ gemTable = <<>>
  /\ state = ""
  /\ fuelType = ""
  /\ page = <<1>>
  /\ fault = "none"
  /\ pc = "aggregations"
  /\ Idle
  /\ dedupIn = <<>>
  /\ dedupOut = Null
  /\ dedupAgain = Null
  /\ peer = Null
  /\ probe = Null
  /\ agg \in [at : {"start"},
              staticData : {"hit", "miss", "none"},
              rpc : {"data", "PGRST202", "error", "throws"},
              fallback : [1..2 -> {"rows", "error", "throws"}],
              fallbackCalls : {0},
              responses : {<<>>}]

\* route.ts 67-73: the result of the static data is returned if there is one
AnswerFromStaticData ==
  /\ pc = "aggregations"
  /\ agg.at = "start"
  /\ agg' = IF agg.staticData = "hit"
            THEN [agg EXCEPT !.at = "done",
                             !.responses = Append(@, [status |-> 200, source |-> "eia-static"])]
            ELSE [agg EXCEPT !.at = "rpc"]
  /\ UNCHANGED <<inputs, pipelineVars, dedupVars, peer, probe>>

\* route.ts 79-95: the RPC; its data are returned, the error PGRST202 leads
\* to fallbackQuery inside the try block, another error is thrown and,
\* like an exception of the call, caught at route.ts 96
CallRpc ==
  /\ pc = "aggregations"
  /\ agg.at = "rpc"
  /\ agg' = CASE agg.rpc = "data" ->
                  [agg EXCEPT !.at = "done",
                              !.responses = Append(@, [status |-> 200, source |-> "rpc"])]
             [] agg.rpc = "PGRST202" -> [agg EXCEPT !.at = "try"]
             [] OTHER -> [agg EXCEPT !.at = "catch"]
  /\ UNCHANGED <<inputs, pipelineVars, dedupVars, peer, probe>>

\* fallbackQuery (route.ts 146-243) called from position `from`: the query
\* is executed; an error gives the response of status 500, rows give the
\* statistics, an exception leaves the function and takes the caller to
\* `thrown`
fallbackQuery(from, thrown) ==
  /\ pc = "aggregations"
  /\ agg.at = from
  /\ agg.fallbackCalls < 2
  /\ agg' = CASE agg.fallback[agg.fallbackCalls + 1] = "rows" ->
                  [agg EXCEPT !.at = "done",
                              !.fallbackCalls = @ + 1,
                              !.responses = Append(@, [status |-> 200, source |-> "yearly-fallback"])]
             [] agg.fallback[agg.fallbackCalls + 1] = "error" ->
                  [agg EXCEPT !.at = "done",
                              !.fallbackCalls = @ + 1,
                              !.responses = Append(@, [status |-> 500, source |-> "error"])]
             [] OTHER ->
                  [agg EXCEPT !.at = thrown, !.fallbackCalls = @ + 1]
  /\ UNCHANGED <<inputs, pipelineVars, dedupVars, peer, probe>>

\* route.ts 90: return await fallbackQuery(...) inside the try block, so
\* an exception of it is caught at route.ts 96
FallbackInTry == fallbackQuery("try", "catch")

\* route.ts 96-99: the catch clause returns await fallbackQuery(...); an
\* exception of it rejects the promise of GET
FallbackInCatch == fallbackQuery("catch", "rejected")

AggNext == AnswerFromStaticData \/ CallRpc \/ FallbackInTry \/ FallbackInCatch

AggSpec == AggInit /\ [][AggNext]_vars


\* ------------------------------------------------------------------------
\* Properties of the retirements pipeline
\* ------------------------------------------------------------------------
RecordsOf(recs) == {recs[i] : i \in 1..Len(recs)}

\* the records pushed so far, kept by the deduplicator, and returned
\* the data list of the response, empty while there is none and when the
\* response is the error body
ResponseData == IF pc = "done" THEN response.data ELSE <<>>

Emitted ==
  RecordsOf(records) \cup RecordsOf(deduplicatedRecords) \cup RecordsOf(ResponseData)

\* the citation that the facility name and state of a record resolve to
CitationOf(r) == findManualDelay(r.plant_name_eia, r.state)

HasRevisedYear(m) == m # Null /\ Truthy(m.revised_retirement_year)
HasDelayYears(m) == m # Null /\ Truthy(m.delay_years)

GastonRequest ==
  /\ eiaTable = <<EiaRow(1, "1", "coal", Null)>>
  /\ gemTable = <<GemRow("Gaston Steam Plant", "Unit 1", "AL", "operating", "Coal", 2028)>>
  /\ page = <<1>>

\* C1: with the generator of "E C Gaston" (AL, no planned date), the GEM unit
\* of "Gaston Steam Plant" (AL, planned year 2028) and the static citation
\* "Gaston Station" (AL, revised year 2035), the response holds a record with
\* data sources eia, gem and manual, planned date 2035-12-31 and extended.
C1_GastonScenario ==
  (pc = "done" /\ GastonRequest) =>
    \E r \in RecordsOf(ResponseData) :
      /\ {r.data_sources[i] : i \in 1..Len(r.data_sources)} = {"eia", "gem", "manual"}
      /\ r.planned_generator_retirement_date = <<2035, 12, 31>>
      /\ r.extended

\* C2: every emitted record whose name and state resolve to a citation with
\* a revised year Y has the planned date Y-12-31, whatever its EIA and GEM
\* dates are.
C2_ManualOverride ==
  \A r \in Emitted :
    HasRevisedYear(CitationOf(r)) =>
      r.planned_generator_retirement_date
        = <<CitationOf(r).revised_retirement_year[1], 12, 31>>

\* an EIA-anchored record whose GEM date lies after the revised year of its
\* citation, and an EIA date before it, is returned
C2_Witness ==
  /\ response # Null
  /\ \E r \in RecordsOf(ResponseData) :
       /\ r.plant_id_eia # Null
       /\ HasRevisedYear(CitationOf(r))
       /\ r.eia_retirement_date # Null
       /\ r.gem_retirement_date # Null
       /\ r.eia_retirement_date[1] < CitationOf(r).revised_retirement_year[1]
       /\ r.gem_retirement_date[1] > CitationOf(r).revised_retirement_year[1]

\* C3: every emitted record has at least one data source.
C3_DataSourcesNonEmpty == \A r \in Emitted : Len(r.data_sources) >= 1

\* a record whose only source is the citation is returned
C3_Witness ==
  /\ response # Null
  /\ \E r \in RecordsOf(ResponseData) : r.data_sources = <<"manual">>

Abs(n) == IF n < 0 THEN -n ELSE n

\* months between two date strings by their calendar year and month
CalendarMonthsBetween(a, b) == Abs((a[1] * 12 + a[2]) - (b[1] * 12 + b[2]))

\* months between two dates by the year and month the server's clock shows
LocalMonthsBetween(a, b) ==
  Abs((getFullYear(a, tzWest) * 12 + getMonth(a, tzWest))
        - (getFullYear(b, tzWest) * 12 + getMonth(b, tzWest)))

BothDates(r) == r.eia_retirement_date # Null /\ r.gem_retirement_date # Null

C5_DelayNullOrPositive ==
  \A r \in Emitted :
    /\ r.delay_months = Null \/ r.delay_months[1] > 0
    /\ (BothDates(r) /\ r.eia_retirement_date = r.gem_retirement_date
          /\ ~HasDelayYears(CitationOf(r))) => r.delay_months = Null

\* a returned record has two equal dates and a null delay_months, and
\* another one has a positive delay_months
C5_Witness ==
  /\ response # Null
  /\ \E r \in RecordsOf(ResponseData) :
       /\ BothDates(r)
       /\ r.eia_retirement_date = r.gem_retirement_date
       /\ r.delay_months = Null
  /\ \E r \in RecordsOf(ResponseData) :
       r.delay_months # Null /\ r.delay_months[1] > 0

\* the generator and plant an EIA-anchored record was built from
GeneratorOf(r) ==
  CHOOSE gen \in RecordsOf(eiaGenerators) :
    gen.plant_id_eia = r.plant_id_eia[1] /\ gen.generator_id = r.generator_id

\* C6: for an EIA-anchored record with no citation that has a revised year,
\* the planned date is the later of the EIA and GEM dates when both are
\* known and the known one when only one is; eia_retirement_date is the
\* generator's planned date and gem_retirement_date the year end of the
\* planned year of the GEM unit selected for the generator.
C6_LaterDateWins ==
  \A r \in Emitted :
    (r.plant_id_eia # Null /\ ~HasRevisedYear(CitationOf(r))) =>
      LET e == r.eia_retirement_date
          g == r.gem_retirement_date
          gen == GeneratorOf(r)
          unit == GemMatchOf(gen, MapGet(plantMap, gen.plant_id_eia))
      IN /\ (e # Null /\ g # Null) =>
              /\ r.planned_generator_retirement_date \in {e, g}
              /\ DateValue(r.planned_generator_retirement_date) >= DateValue(e)
              /\ DateValue(r.planned_generator_retirement_date) >= DateValue(g)
         /\ (e # Null /\ g = Null) => r.planned_generator_retirement_date = e
         /\ (e = Null /\ g # Null) => r.planned_generator_retirement_date = g
         /\ e = gen.planned_generator_retirement_date
         /\ g = (IF unit # Null THEN <<unit.planned_retirement_year[1], 12, 31>> ELSE Null)

\* the generator loop has pushed records without a revised-year citation: one
\* whose EIA date is the later one, and one whose GEM date is the later one
C6_Witness ==
  /\ pc = "dedup"
  /\ \E r \in RecordsOf(records) :
       /\ r.plant_id_eia # Null /\ ~HasRevisedYear(CitationOf(r)) /\ BothDates(r)
       /\ DateValue(r.eia_retirement_date) > DateValue(r.gem_retirement_date)
       /\ r.planned_generator_retirement_date = r.eia_retirement_date
  /\ \E r \in RecordsOf(records) :
       /\ r.plant_id_eia # Null /\ ~HasRevisedYear(CitationOf(r)) /\ BothDates(r)
       /\ DateValue(r.eia_retirement_date) < DateValue(r.gem_retirement_date)
       /\ r.planned_generator_retirement_date = r.gem_retirement_date

\* ------------------------------------------------------------------------
\* Properties of the deduplicator
\* ------------------------------------------------------------------------
\* C8: applying the deduplicator to its own output returns the same records
\* in the same order, for every input list of merged records.
C8_DedupIdempotent == dedupAgain # Null => dedupAgain[1] = dedupOut[1]

\* the second application has run on the output of a first one that
\* collapsed two records and kept at least two
C8_Witness ==
  /\ dedupAgain # Null
  /\ Len(dedupOut[1]) < Len(dedupIn)
  /\ Len(dedupOut[1]) >= 2

\* two records have the same normalized name, state and digits of the id
SameUnit(r, s) ==
  /\ normalizePlantName(r.plant_name_eia) = normalizePlantName(s.plant_name_eia)
  /\ r.state = s.state
  /\ DigitsOf(r.generator_id) = DigitsOf(s.generator_id)

\* the records of recs that share the unit of r
GroupOf(recs, r) == {s \in RecordsOf(recs) : SameUnit(r, s)}

\* C9: for every key of the input the deduplicator keeps exactly one record,
\* taken from the input; it has the largest number of data sources among
\* the records of the key, and a non-null plant_id_eia if any record of the
\* key with that largest number has one.
C9_KeepsRichest ==
  dedupOut # Null =>
    \A r \in RecordsOf(dedupIn) :
      LET group == GroupOf(dedupIn, r)
          kept == {i \in 1..Len(dedupOut[1]) : SameUnit(dedupOut[1][i], r)}
      IN /\ Cardinality(kept) = 1
         /\ \A i \in kept :
              LET k == dedupOut[1][i]
              IN /\ k \in group
                 /\ \A s \in group : Len(k.data_sources) >= Len(s.data_sources)
                 /\ (\E s \in group : /\ Len(s.data_sources) = Len(k.data_sources)
                                       /\ s.plant_id_eia # Null)
                      => k.plant_id_eia # Null

\* a research-only record comes first, an EIA record of the same key with as
\* many data sources after it, and the EIA record is the one kept
C9_Witness ==
  /\ dedupOut # Null
  /\ \E i, j \in 1..Len(dedupIn) :
       /\ i < j
       /\ SameUnit(dedupIn[i], dedupIn[j])
       /\ Len(dedupIn[i].data_sources) = Len(dedupIn[j].data_sources)
       /\ dedupIn[i].plant_id_eia = Null
       /\ dedupIn[j].plant_id_eia # Null
       /\ dedupIn[j] \in RecordsOf(dedupOut[1])
       /\ dedupIn[i] \notin RecordsOf(dedupOut[1])

\* two records of one plant and state
SamePlant(r, s) == r.plant_name_eia = s.plant_name_eia /\ r.state = s.state

\* C10 as stated: two records of the same plant and state with two distinct
\* generator ids are both present after deduplication.
C10_DistinctIdsKept ==
  dedupOut # Null =>
    \A r, s \in RecordsOf(dedupIn) :
      (SamePlant(r, s) /\ r.generator_id # s.generator_id) =>
        (r \in RecordsOf(dedupOut[1]) /\ s \in RecordsOf(dedupOut[1]))

\* C10 amended: two records of the same plant and state whose generator ids
\* differ in their digits are never collapsed into one: the output holds two
\* different records, one of the unit of each; and each of the two that
\* shares its unit with no other input record is itself in the output.
C10_DistinctDigitsKept ==
  dedupOut # Null =>
    \A r, s \in RecordsOf(dedupIn) :
      (SamePlant(r, s) /\ DigitsOf(r.generator_id) # DigitsOf(s.generator_id)) =>
        /\ \E a, b \in 1..Len(dedupOut[1]) :
             /\ a # b
             /\ SameUnit(dedupOut[1][a], r)
             /\ SameUnit(dedupOut[1][b], s)
        /\ GroupOf(dedupIn, r) = {r} => r \in RecordsOf(dedupOut[1])
        /\ GroupOf(dedupIn, s) = {s} => s \in RecordsOf(dedupOut[1])

\* generators "1", "A1" and "2" of one plant go in; "1" and "A1" are
\* collapsed, and "2" is kept beside the record kept for them
C10_Witness ==
  /\ dedupOut # Null
  /\ Len(dedupIn) = 3
  /\ Len(dedupOut[1]) = 2
  /\ \E r, s, t \in RecordsOf(dedupIn) :
       /\ SamePlant(r, s) /\ SamePlant(s, t)
       /\ r.generator_id = "1" /\ s.generator_id = "A1" /\ t.generator_id = "2"
       /\ t \in RecordsOf(dedupOut[1])

\* ------------------------------------------------------------------------
\* Research-only records
\* ------------------------------------------------------------------------
\* the places in records of the research-only records of unit gem
ResearchOnly(gem) ==
  {i \in 1..Len(records) :
     /\ records[i].plant_id_eia = Null
     /\ records[i].plant_name_eia = gem.plant_name
     /\ records[i].generator_id = gem.unit_name
     /\ records[i].state = gem.state}

\* the units of the groups that no generator matched
UnmatchedUnits ==
  UNION {RecordsOf(e.val) : e \in {e \in RecordsOf(gemByPlant) : e.key \notin seenGemPlants}}

Retired(gem) == toLowerCase(gem.status) = "retired"

\* what C11 says of the research-only record r of unit gem
ResearchOnlyFields(r, gem) ==
  /\ r.eia_retirement_date = Null
  /\ r.gem_retirement_date = YearEnd(gem.planned_retirement_year[1])
  /\ r.data_sources =
       IF findManualDelay(gem.plant_name, gem.state) # Null
       THEN <<"gem", "manual">> ELSE <<"gem">>
  /\ (findManualDelay(gem.plant_name, gem.state) = Null =>
        r.planned_generator_retirement_date = YearEnd(gem.planned_retirement_year[1]))

\* C11: once the loop over the unmatched GEM groups has run, every unit of a
\* group that no generator matched, with a planned year and not retired, has
\* exactly one record without EIA plant id before deduplication; the record
\* has no EIA date, the GEM date is the last day of the planned year, the
\* sources are gem, and manual exactly when a citation is found for the name
\* and state, and without a citation the planned date is the GEM date. A row
\* of the GEM table that is retired or has no planned year has no such record.
C11_ResearchOnlyRecords ==
  pc \in {"dedup", "sort", "done"} =>
    /\ \A gem \in UnmatchedUnits :
         (Truthy(gem.planned_retirement_year) /\ ~Retired(gem)) =>
           /\ Cardinality(ResearchOnly(gem)) = 1
           /\ \A i \in ResearchOnly(gem) : ResearchOnlyFields(records[i], gem)
    /\ \A gem \in RecordsOf(gemTable) :
         (~Truthy(gem.planned_retirement_year) \/ Retired(gem)) =>
           ResearchOnly(gem) = {}

\* a request that pushed a research-only record with a citation and one
\* without, over a table with a retired unit
C11_Witness ==
  /\ pc = "dedup"
  /\ \E i, j \in 1..Len(records) :
       /\ records[i].plant_id_eia = Null /\ records[i].data_sources = <<"gem", "manual">>
       /\ records[j].plant_id_eia = Null /\ records[j].data_sources = <<"gem">>
  /\ \E gem \in RecordsOf(gemTable) : Retired(gem)

\* ------------------------------------------------------------------------
\* Order and pages of the response
\* ------------------------------------------------------------------------
PlannedDate(r) == r.planned_generator_retirement_date

\* C12: in the sorted set, and so in the page cut from it, a record with a
\* planned date never stands after a record with a later planned date, and a
\* record without a planned date stands after every record with one.
C12_SortedByPlannedDate ==
  pc = "done" =>
    /\ \A i, j \in 1..Len(deduplicatedRecords) :
         i < j =>
           /\ PlannedDate(deduplicatedRecords[i]) = Null =>
                PlannedDate(deduplicatedRecords[j]) = Null
           /\ (PlannedDate(deduplicatedRecords[i]) # Null
                 /\ PlannedDate(deduplicatedRecords[j]) # Null) =>
                DateValue(PlannedDate(deduplicatedRecords[i]))
                  <= DateValue(PlannedDate(deduplicatedRecords[j]))
    /\ \A i, j \in 1..Len(response.data) :
         i < j =>
           /\ PlannedDate(response.data[i]) = Null => PlannedDate(response.data[j]) = Null
           /\ (PlannedDate(response.data[i]) # Null /\ PlannedDate(response.data[j]) # Null) =>
                DateValue(PlannedDate(response.data[i]))
                  <= DateValue(PlannedDate(response.data[j]))

\* a response whose records came in another order, the one without a planned
\* date first, and a later date before an earlier one
C12_Witness ==
  /\ pc = "done"
  /\ Len(records) >= 3
  /\ PlannedDate(records[1]) = Null
  /\ PlannedDate(records[2]) = <<2030, 12, 31>>
  /\ PlannedDate(records[3]) = <<2028, 12, 31>>
  /\ Len(response.data) = Len(records)
  /\ PlannedDate(response.data[Len(records)]) = Null

\* the sorted records at positions (p - 1) * limit up to p * limit exclusive,
\* positions counted from 0
PageSlice(sorted, p) ==
  SubSeq(sorted, (p - 1) * limit + 1, Min(p * limit, Len(sorted)))

\* C13: for a page number outside 1..totalPages the data list is empty, and
\* for a page number p inside it the data list is the sorted records at
\* positions (p - 1) * 100 up to p * 100 exclusive.
C13_OutOfRangePageEmpty ==
  (pc = "done" /\ page # Null) =>
    response.data =
      IF page[1] \in 1..CeilDiv(Len(deduplicatedRecords), limit)
      THEN PageSlice(deduplicatedRecords, page[1])
      ELSE <<>>

\* the data lists of pages p..last of the sorted set, one after the other
RECURSIVE PagesFrom(_, _, _)
PagesFrom(sorted, p, last) ==
  IF p > last THEN <<>>
  ELSE PageOf(sorted, <<p>>).data \o PagesFrom(sorted, p + 1, last)

\* C14: whatever page is asked for, pagination.total is the number of
\* records of the deduplicated set, pagination.totalPages is the least
\* number of pages of 100 that hold them, and the data lists of pages
\* 1..totalPages one after the other are the sorted set, every record once.
C14_TotalsAndPartition ==
  pc = "done" =>
    /\ response.pagination.total = Len(records)
    /\ response.pagination.total = Len(deduplicatedRecords)
    /\ response.pagination.totalPages * 100 >= response.pagination.total
    /\ response.pagination.totalPages >= 0
    /\ (response.pagination.totalPages - 1) * 100 < response.pagination.total
    /\ PagesFrom(deduplicatedRecords, 1, response.pagination.totalPages)
         = deduplicatedRecords
    /\ \A i, j \in 1..Len(deduplicatedRecords) :
         i # j => deduplicatedRecords[i] # deduplicatedRecords[j]

\* a request for a page past the last one of a set of three pages
C14_Witness ==
  /\ pc = "done"
  /\ page = <<4>>
  /\ response.pagination.total = 250
  /\ response.pagination.totalPages = 3
  /\ response.data = <<>>

\* ------------------------------------------------------------------------
\* Filters
\* ------------------------------------------------------------------------
\* C15: with the fuel filter "coal" no record that is pushed, kept by the
\* deduplicator or returned has the fuel gas, whether it has an EIA plant id
\* or is research-only; every such record has the fuel coal.
C15_CoalFilterExcludesGas ==
  fuelType = "coal" =>
    \A r \in Emitted :
      /\ r.fuel_type_code_pudl # <<"gas">>
      /\ r.fuel_type_code_pudl = <<"coal">>

\* a coal request over a gas generator, a gas unit of GEM and a coal generator
C15_Witness ==
  /\ pc = "done"
  /\ fuelType = "coal"
  /\ \E gen \in RecordsOf(eiaTable) : gen.fuel_type_code_pudl = "gas"
  /\ \E gem \in RecordsOf(gemTable) : toLowerCase(gem.fuel_type) = "gas"
  /\ Len(response.data) > 0

\* ------------------------------------------------------------------------
\* Failures
\* ------------------------------------------------------------------------
\* C16: when a query throws, the body of the response names a generic
\* internal failure and still has a data list and a pagination object.
C16_FailureKeepsPageShape ==
  (pc = "failed" /\ fault \in {"gemThrows", "generatorsThrows"}) =>
    /\ response.error = "Internal server error"
    /\ "data" \in DOMAIN response
    /\ "pagination" \in DOMAIN response

\* the research query reports an error or yields no row
GemMissing ==
  fault = "gemError" \/ GemQuery(gemTable, state, fuelType) = <<>>

\* the report date, the generators or the plants are missing: a query
\* reports an error or yields no row
EiaMissing ==
  \/ fault \in {"dateError", "generatorsError", "plantsError"}
  \/ eiaTable = <<>>
  \/ EiaQuery(eiaTable, fuelType) = <<>>
  \/ PlantQuery(EiaQuery(eiaTable, fuelType), state) = <<>>

\* no query rejects and no row of the research query has a null name
NothingThrows == fault # "generatorsThrows" /\ ~ThrowsAtGem

Lists(r, source) == \E i \in 1..Len(r.data_sources) : r.data_sources[i] = source

\* C17: when a query reports an error or yields no row, the request does not
\* end in the failure response; its response is a page, no record of it
\* lists the missing source, and the other source still gives its records:
\* without authoritative rows every unit of the research query with a
\* planned year that is not retired has its research-only record, and without
\* research rows every generator with a planned date and a plant has a record.
C17_MissingSourceTolerated ==
  (NothingThrows /\ (GemMissing \/ EiaMissing)) =>
    /\ pc # "failed"
    /\ pc = "done" =>
         /\ DOMAIN response = {"data", "pagination"}
         /\ GemMissing => \A r \in Emitted : ~Lists(r, "gem")
         /\ EiaMissing =>
              /\ \A r \in Emitted : ~Lists(r, "eia") /\ r.plant_id_eia = Null
              /\ \A gem \in RecordsOf(gemData) :
                   (Truthy(gem.planned_retirement_year) /\ ~Retired(gem)) =>
                     ResearchOnly(gem) # {}
         /\ GemMissing =>
              \A gen \in RecordsOf(eiaGenerators) :
                (gen.planned_generator_retirement_date # Null
                   /\ MapHas(plantMap, gen.plant_id_eia)) =>
                  \E r \in RecordsOf(records) :
                    /\ r.plant_id_eia = <<gen.plant_id_eia>>
                    /\ r.generator_id = gen.generator_id
                    /\ Lists(r, "eia")

\* the plants query reports an error over a table with a dated generator, and
\* the research rows still give the page its records
C17_Witness ==
  /\ pc = "done"
  /\ fault = "plantsError"
  /\ \E gen \in RecordsOf(eiaGenerators) : gen.planned_generator_retirement_date # Null
  /\ Len(response.data) > 0

\* the research query yields a row whose plant_name is null
NullNameQueried ==
  \E gem \in RecordsOf(GemQuery(gemTable, state, fuelType)) : gem.plant_name = NullString

C19_PageIsPositive ==
  (NothingThrows /\ pc \in {"done", "failed"}) =>
    /\ pc = "done"
    /\ DOMAIN response = {"data", "pagination"}
    /\ response.pagination.page # Null
    /\ response.pagination.page[1] >= 1

\* ------------------------------------------------------------------------
\* Concurrent requests
\* ------------------------------------------------------------------------
\* The response of a request that runs alone, as a function of the request
\* and the tables. acc is <<records, seenGemPlants>>, idx is
\* <<gemByPlant, gemByNormalizedName>>.
AlonePush(acc, k, gemMatch, rec) ==
  << IF rec # Null THEN Append(acc[1], rec) ELSE acc[1],
     IF gemMatch # Null THEN acc[2] \cup {k[1]} ELSE acc[2] >>

AloneMatched(gen, plant, byPlant, k, acc) ==
  AlonePush(acc, k, UnitOfKey(byPlant, k, gen),
            MergeEia(gen, plant, UnitOfKey(byPlant, k, gen)))

AloneStep(gen, plant, idx, acc) ==
  IF plant = Null THEN acc
  ELSE AloneMatched(gen, plant, idx[1], MatchedGemKey(plant, idx[1], idx[2]), acc)

RECURSIVE AloneLoop(_, _, _, _, _)
AloneLoop(gens, i, plants, idx, acc) ==
  IF Len(acc) < 0 \/ i > Len(gens) THEN acc
  ELSE AloneLoop(gens, i + 1, plants, idx,
                 AloneStep(gens[i], MapGet(plants, gens[i].plant_id_eia), idx, acc))

AloneRecords(idx, acc, st) == acc[1] \o GemOnlyRecords(idx[1], acc[2], st, 1)

AlonePage(deduplicated, p) == PageOf(SortByDate(deduplicated, Len(deduplicated)), p)

AloneWith(idx, gens, plants, st, p) ==
  AlonePage(Dedupe(AloneRecords(idx, AloneLoop(gens, 1, plants, idx, <<(<<>>), {}>>), st)), p)

AloneGenerators(gens, idx, st, p) ==
  AloneWith(idx, gens, IF Len(gens) > 0 THEN PlantQuery(gens, st) ELSE <<>>, st, p)

RunAlone(st, ft, p) ==
  AloneGenerators(IF Len(eiaTable) > 0 THEN EiaQuery(eiaTable, ft) ELSE <<>>,
                  BuildGemIndex(GemQuery(gemTable, st, ft), 1, <<>>, <<>>), st, p)

\* C20: of two invocations over the same tables that take turns at their
\* awaits, each returns the response that its request gives when it runs
\* alone.
C20_NoInterference ==
  /\ pc = "done" => response = RunAlone(state, fuelType, page)
  /\ peer.pc = "done" => peer.response = RunAlone(peer.state, peer.fuelType, peer.page)

\* an invocation has returned records while the other, which queried GEM
\* before, is suspended at the generators query
C20_Witness ==
  /\ pc = "done"
  /\ Len(response.data) > 0
  /\ peer.pc = "eia"
  /\ Len(peer.gemData) > 0

\* ------------------------------------------------------------------------
\* Matcher
\* ------------------------------------------------------------------------
\* the plants of the generators that the loop at route.ts 293 merges
MergedPlants ==
  {MapGet(plantMap, gen.plant_id_eia) :
     gen \in {g \in RecordsOf(eiaGenerators) : MapHas(plantMap, g.plant_id_eia)}}

\* the group of key k is marked and none of its units has a research-only
\* record; nothing is said when k is Null
Consumed(k) ==
  k # Null =>
    /\ k[1] \in seenGemPlants
    /\ \A gem \in RecordsOf(MapGet(gemByPlant, k[1])) : ResearchOnly(gem) = {}

\* C21: once the research-only pass has run, the group that the matcher
\* finds for the plant of a merged generator, by whichever strategy, is
\* marked as seen, and no unit of it has a record without EIA plant id.
C21_MatchedGroupConsumed ==
  pc \in {"dedup", "sort", "done"} =>
    \A plant \in MergedPlants :
      Consumed(MatchedGemKey(plant, gemByPlant, gemByNormalizedName))

\* a plant matched by the containment scan only, beside an unmatched group
\* that has its research-only record
C21_Witness ==
  /\ pc = "dedup"
  /\ \E plant \in MergedPlants :
       /\ DirectKey(plant.plant_name_eia \o "-" \o plant.state, gemByPlant) = Null
       /\ AliasKey(plant, gemByPlant) = Null
       /\ NormalizedKey(plant, gemByNormalizedName) = Null
       /\ PartialKey(plant, gemByPlant) # Null
  /\ \E r \in RecordsOf(records) : r.plant_id_eia = Null

\* the exact key of a plant, `${plant_name_eia}-${state}`
ExactKey(plant) == plant.plant_name_eia \o "-" \o plant.state

\* k is the result of the first of the four strategies that finds a group
\* for the plant, Null when none does
FirstSuccess(plant, k) ==
  /\ MapHas(gemByPlant, ExactKey(plant)) => k = <<ExactKey(plant)>>
  /\ (~MapHas(gemByPlant, ExactKey(plant)) /\ AliasKey(plant, gemByPlant) # Null) =>
       k = AliasKey(plant, gemByPlant)
  /\ (~MapHas(gemByPlant, ExactKey(plant)) /\ AliasKey(plant, gemByPlant) = Null
        /\ NormalizedKey(plant, gemByNormalizedName) # Null) =>
       k = NormalizedKey(plant, gemByNormalizedName)
  /\ (~MapHas(gemByPlant, ExactKey(plant)) /\ AliasKey(plant, gemByPlant) = Null
        /\ NormalizedKey(plant, gemByNormalizedName) = Null) =>
       k = PartialKey(plant, gemByPlant)
  /\ k = Null \/ (Len(k) = 1 /\ MapHas(gemByPlant, k[1]))

\* the keys that the first successful strategy gives the plants
FirstSuccessKeys(plants) ==
  {k \in {e.key : e \in RecordsOf(gemByPlant)} :
     \E plant \in plants : FirstSuccess(plant, <<k>>)}

\* C22: for the plant of every merged generator the matcher gives at most
\* one group: the group of the exact key when it is present, otherwise the
\* result of the first of alias table, normalized name and containment scan
\* that finds one; the groups marked as seen by the loop over the generators
\* are exactly these.
C22_FirstStrategyWins ==
  /\ pc \in {"generators", "dedup", "sort", "done"} =>
       \A plant \in MergedPlants :
         FirstSuccess(plant, MatchedGemKey(plant, gemByPlant, gemByNormalizedName))
  /\ pc \in {"dedup", "sort", "done"} =>
       seenGemPlants = FirstSuccessKeys(MergedPlants)

\* a plant whose exact key is present while the normalized name leads to
\* another group
C22_Witness ==
  /\ pc = "dedup"
  /\ \E plant \in MergedPlants :
       /\ MapHas(gemByPlant, ExactKey(plant))
       /\ NormalizedKey(plant, gemByNormalizedName) # Null
       /\ NormalizedKey(plant, gemByNormalizedName) # <<ExactKey(plant)>>
       /\ ExactKey(plant) \in seenGemPlants

\* one of the two normalized names contains the other
Contained(a, b) == includes(a, b) \/ includes(b, a)

\* the groups in the state of the plant whose normalized name contains, or
\* is contained in, the normalized name of the plant
ContainmentGroups(plant) ==
  {e \in RecordsOf(gemByPlant) :
     /\ e.val[1].state = plant.state
     /\ Contained(normalizePlantName(e.val[1].plant_name),
                  normalizePlantName(plant.plant_name_eia))}

\* C23: a plant of a merged generator for which the exact key, the alias
\* table and the normalized name find nothing is matched exactly when some
\* group of its state has a normalized name that contains, or is contained
\* in, its normalized name, whatever characters the name of the group has;
\* the group it is matched to is such a group.
C23_ContainmentScan ==
  pc \in {"generators", "dedup", "sort", "done"} =>
    \A plant \in MergedPlants :
      (~MapHas(gemByPlant, ExactKey(plant)) /\ AliasKey(plant, gemByPlant) = Null
         /\ NormalizedKey(plant, gemByNormalizedName) = Null) =>
        /\ ContainmentGroups(plant) # {} =>
             MatchedGemKey(plant, gemByPlant, gemByNormalizedName) # Null
        /\ MatchedGemKey(plant, gemByPlant, gemByNormalizedName) # Null =>
             \E e \in ContainmentGroups(plant) :
               MatchedGemKey(plant, gemByPlant, gemByNormalizedName) = <<e.key>>

\* ------------------------------------------------------------------------
\* Merged generators
\* ------------------------------------------------------------------------
\* the generators that the loop at route.ts 293 merges
MergedGenerators ==
  {g \in RecordsOf(eiaGenerators) : MapHas(plantMap, g.plant_id_eia)}

\* the records pushed for generator gen
RecordsFor(gen) ==
  {r \in RecordsOf(records) :
     r.plant_id_eia = <<gen.plant_id_eia>> /\ r.generator_id = gen.generator_id}

\* the GEM unit selected for a merged generator, Null when none is
MatchOf(gen) == GemMatchOf(gen, MapGet(plantMap, gen.plant_id_eia))

\* C24: the record of a merged generator whose selected research unit is
\* marked retired has no GEM date and does not list gem among its sources.
C24_RetiredUnitGivesNoDate ==
  pc \in {"dedup", "sort", "done"} =>
    \A gen \in MergedGenerators :
      (MatchOf(gen) # Null /\ Retired(MatchOf(gen))) =>
        \A r \in RecordsFor(gen) :
          r.gem_retirement_date = Null /\ ~Lists(r, "gem")

\* the citation found for the plant of a merged generator
CitationFor(gen) ==
  findManualDelay(MapGet(plantMap, gen.plant_id_eia).plant_name_eia,
                  MapGet(plantMap, gen.plant_id_eia).state)

\* the generator has a planned date of its own or its selected unit has a
\* planned year
HasDate(gen) ==
  \/ gen.planned_generator_retirement_date # Null
  \/ (MatchOf(gen) # Null /\ Truthy(MatchOf(gen).planned_retirement_year))

\* C26: once the loop over the generators has run, a merged generator has a
\* record exactly when it has a date from EIA or from its research unit, or
\* a citation is found for its plant; it never has two.
C26_EmittedIffDateOrCitation ==
  pc \in {"dedup", "sort", "done"} =>
    \A gen \in MergedGenerators :
      /\ (RecordsFor(gen) # {}) <=> (HasDate(gen) \/ CitationFor(gen) # Null)
      /\ Cardinality({i \in 1..Len(records) : records[i] \in RecordsFor(gen)}) <= 1

\* a generator without any date that is pushed for its citation, beside a
\* generator without date, research unit and citation that is not pushed
C26_Witness ==
  /\ pc = "dedup"
  /\ \E gen \in MergedGenerators :
       ~HasDate(gen) /\ CitationFor(gen) # Null /\ RecordsFor(gen) # {}
  /\ \E gen \in MergedGenerators :
       ~HasDate(gen) /\ CitationFor(gen) = Null /\ MatchOf(gen) = Null
         /\ RecordsFor(gen) = {}

\* the unit is the one selected for the record of some merged generator
SelectedUnit(gem) ==
  \E gen \in MergedGenerators : MatchOf(gen) = gem /\ RecordsFor(gen) # {}

\* C29: once both loops have run, every research unit with a planned year
\* that is not retired stands in the list before deduplication, as the unit
\* selected for the record of some generator or as a research-only record.
C29_NoResearchUnitLost ==
  pc \in {"dedup", "sort", "done"} =>
    \A gem \in RecordsOf(gemData) :
      (Truthy(gem.planned_retirement_year) /\ ~Retired(gem)) =>
        (SelectedUnit(gem) \/ ResearchOnly(gem) # {})

\* the key of the group of a research unit (route.ts 243)
GroupKey(gem) == gem.plant_name \o "-" \o gem.state

\* a unit with a planned year that is not marked retired
LiveUnit(gem) == Truthy(gem.planned_retirement_year) /\ ~Retired(gem)

\* C29 as the code has it: once both loops have run, every research unit
\* with a planned year that is not retired and whose group no generator
\* matched has a research-only record, and every unit selected for a merged
\* generator stands in that generator's record; a unit of a matched group
\* has no research-only record, so one that no generator selected is in no
\* record at all.
C29_UnitsOfUnmatchedGroupsKept ==
  pc \in {"dedup", "sort", "done"} =>
    /\ \A gem \in RecordsOf(gemData) :
         LiveUnit(gem) =>
           (ResearchOnly(gem) # {} <=> GroupKey(gem) \notin seenGemPlants)
    /\ \A gen \in MergedGenerators :
         (MatchOf(gen) # Null /\ LiveUnit(MatchOf(gen))) =>
           \E r \in RecordsFor(gen) :
             r.gem_retirement_date = YearEnd(MatchOf(gen).planned_retirement_year[1])

\* a request with a unit selected for a generator and a second unit of the
\* same group that no generator selected and that stands in no record
C29_Witness ==
  /\ pc = "dedup"
  /\ \E gem, other \in RecordsOf(gemData) :
       /\ LiveUnit(gem) /\ LiveUnit(other)
       /\ GroupKey(gem) = GroupKey(other)
       /\ SelectedUnit(gem) /\ ~SelectedUnit(other)
       /\ ResearchOnly(other) = {}

\* ------------------------------------------------------------------------
\* The normalizer and the citation lookup on their own
\* ------------------------------------------------------------------------
\* the words of s: its maximal runs of characters other than the space
RECURSIVE WordsFrom(_, _, _)
WordsFrom(s, i, cur) ==
  IF Len(cur) < 0 \/ i > Len(s) THEN (IF cur = "" THEN <<>> ELSE <<cur>>)
  ELSE IF CharAt(s, i) = " "
       THEN (IF cur = "" THEN <<>> ELSE <<cur>>) \o WordsFrom(s, i + 1, "")
       ELSE WordsFrom(s, i + 1, cur \o CharAt(s, i))

\* the words of ws joined by one space
RECURSIVE JoinWords(_)
JoinWords(ws) ==
  IF Len(ws) = 0 THEN ""
  ELSE IF Len(ws) = 1 THEN ws[1]
  ELSE ws[1] \o " " \o JoinWords(Tail(ws))

\* the name lower-cased, without the characters that are no letter, digit
\* or space, without the words of the stoplist, its other words one space
\* apart
WithoutStopWords(name) ==
  JoinWords(SelectSeq(WordsFrom(KeepChars(LowerString(name), NameChars), 1, ""),
                      LAMBDA w : w \notin Range(StopWords)))

\* C27: the normalizer returns the name lower-cased, stripped of every
\* character that is no letter, digit or space, with every stoplist word
\* removed wherever it stands and nothing else removed, the remaining words
\* one space apart.
C27_StopWordsRemovedEverywhere ==
  (pc = "probe" /\ probe.normalized # Null) =>
    probe.normalized[1] = WithoutStopWords(probe.name)

\* C28: the normalizer applied to its own result returns that result.
C28_NormalizerIdempotent ==
  (pc = "probe" /\ probe.again # Null) => probe.again = probe.normalized

\* the positions of the citations of the static list with the state st whose
\* name, lower-cased and reduced to letters and digits as the lookup reduces
\* it, is the name q
ExactCitations(q, st) ==
  {i \in 1..Len(MANUAL_DELAY_DATA) :
     /\ MANUAL_DELAY_DATA[i].state = st
     /\ CompactName(MANUAL_DELAY_DATA[i].name) = q}

\* ... contains q or is contained in q
ContainmentCitations(q, st) ==
  {i \in 1..Len(MANUAL_DELAY_DATA) :
     /\ MANUAL_DELAY_DATA[i].state = st
     /\ Contained(CompactName(MANUAL_DELAY_DATA[i].name), q)}

\* the citation the lookup is to return: Null for none
ExpectedCitation(q, st) ==
  IF ExactCitations(q, st) # {}
  THEN MANUAL_DELAY_DATA[First(ExactCitations(q, st))]
  ELSE IF ContainmentCitations(q, st) # {}
  THEN MANUAL_DELAY_DATA[First(ContainmentCitations(q, st))]
  ELSE Null

C30_FallbackAtMostOnce ==
  (pc = "aggregations" /\ agg.staticData # "hit") =>
    /\ agg.fallbackCalls <= 1
    /\ (agg.at \in {"done", "rejected"} => Len(agg.responses) = 1)

=============================================================================
